---- MODULE Spec2Model ----
(***************************************************************************)
(* The ad-clip generation route (src/src/app/api/veo/route.ts): the POST   *)
(* handler's cache lookup and retry search over timestamp candidates,      *)
(* models and safety profiles, the two cache layers, and the DELETE        *)
(* handler.  One action per step between two awaits of a handler.          *)
(*                                                                         *)
(* Timestamps are JavaScript numbers in seconds; here they are integers    *)
(* counting ticks, TicksPerMs ticks to the millisecond, so that a          *)
(* timestamp finer than a millisecond exists and Math.floor(x*1000)/1000   *)
(* is ((x \div TicksPerMs) * TicksPerMs).  Strings that are joined or      *)
(* compared are sequences of characters.                                   *)
(***************************************************************************)
EXTENDS Integers, Sequences, FiniteSets, TLC

VARIABLES
    env,          \* what the module-level constants and process.env resolve to
    faults,       \* the raw errors the video provider answers with in this run
    pending,      \* request bodies still to arrive, in arrival order
    deletesLeft,  \* DELETE calls still to arrive
    adClipCache,  \* the in-memory Map, as its entries in insertion order
    disk,         \* the durable store: whether CACHE_DIR exists, and cache key -> file content
    req,          \* per request handler: position and locals of POST
    del,          \* the DELETE handler: position and locals
    nextOp,       \* names the provider's next completed operation
    log,          \* responses sent and DELETE steps taken, in order
    call          \* one call of a helper of the route followed step by step: its
                  \* arguments, position and locals, and the temp files it owns

vars == <<env, faults, pending, deletesLeft, adClipCache, disk, req, del, nextOp, log, call>>

----------------------------------------------------------------------------
(* Bounds *)

TicksPerMs == 2
NumOffsets == 3
MaxModels == 2
MaxCacheItems == 2
MaxPending == 2

TicksPerSecond == 1000 * TicksPerMs

Procs == {1}

----------------------------------------------------------------------------
(* Program constants *)

AD_INSERT_DURATION_SECONDS == 8
VEO_MAX_IMAGE_TO_VIDEO_SECONDS == 8

DefaultOffsets == <<0, 3, -3, 6, -6, 10, -10, 15, -15>>

\* the configured offset list: the first NumOffsets of the default list
TIMESTAMP_FALLBACK_OFFSETS ==
    SubSeq(DefaultOffsets, 1, IF NumOffsets < Len(DefaultOffsets) THEN NumOffsets ELSE Len(DefaultOffsets))

DEFAULT_ASPECT_RATIO == <<"16:9">>
DEFAULT_RESOLUTION == <<"720p">>
DEFAULT_STYLE == <<"ad-possession">>

----------------------------------------------------------------------------
(* Helpers on sequences *)

Max(a, b) == IF a > b THEN a ELSE b
Min(a, b) == IF a < b THEN a ELSE b

RECURSIVE Digits(_)
\* String(n) for a non-negative integer, as its decimal digits
Digits(n) ==
    IF n < 10 THEN <<ToString(n)>> ELSE Digits(n \div 10) \o <<ToString(n % 10)>>

RECURSIVE Join(_)
\* Array.prototype.join(":") on a sequence of strings
Join(parts) ==
    IF Len(parts) = 0 THEN <<>>
    ELSE IF Len(parts) = 1 THEN parts[1]
    ELSE parts[1] \o <<":">> \o Join(Tail(parts))

SeqContains(s, x) == \E i \in DOMAIN s : s[i] = x

----------------------------------------------------------------------------
(* Errors thrown inside a generation attempt.  A raw error is the text of   *)
(* the thrown Error: `form` says whether it holds a parsable {"error":...}  *)
(* object ("json"), one that does not parse ("badjson"), or none ("plain"); *)
(* code/status are that object's fields; msg is the set of marker phrases   *)
(* the lower-cased message text contains.                                   *)

FacePhrases ==
    {"face generation", "input image contains content that has been blocked"}
UsagePhrases ==
    {"violates vertex ai's usage guidelines", "violates vertex ai usage guidelines"}
MissingPhrases ==
    {"did not return first split segment", "did not return second split segment",
     "returned no video sample"}

RawError(form, code, status, msg) ==
    [form |-> form, code |-> code, status |-> status, msg |-> msg]

\* route.ts:197-214
parseStructuredApiError(error) ==
    IF error.form = "json"
    THEN [code |-> error.code, status |-> error.status, message |-> error.msg]
    ELSE [code |-> 0, status |-> "", message |-> error.msg]

\* route.ts:68-75
isFaceSafetyBlock(message) == message \cap FacePhrases # {}
\* route.ts:77-84
isUsageGuidelineBlock(message) == message \cap UsagePhrases # {}
\* route.ts:86-88
isBlockedInputImageError(message) ==
    isFaceSafetyBlock(message) \/ isUsageGuidelineBlock(message)
\* route.ts:90-97
isMissingSampleError(message) == message \cap MissingPhrases # {}

\* route.ts:1035: the first test of the catch block
IsPermissionDenied(parsed) == parsed.code = 403 \/ parsed.status = "PERMISSION_DENIED"

\* a classification that reads the numeric code alone
IsQuotaExceeded_CodeOnly(parsed) == parsed.code = 429

\* route.ts:1044: the second test of the catch block
IsQuotaExceeded(parsed) == parsed.code = 429 \/ parsed.status = "RESOURCE_EXHAUSTED"

\* a catch block without the 429 return
TerminalStatus_IgnoresQuota(parsed) == IF IsPermissionDenied(parsed) THEN 403 ELSE 0

\* a catch block that tests the quota before the permission
TerminalStatus_QuotaFirst(parsed) ==
    IF IsQuotaExceeded(parsed) THEN 429
    ELSE IF IsPermissionDenied(parsed) THEN 403
    ELSE 0

\* route.ts:1035-1052: the status the catch block returns at once, 0 when it returns nothing
TerminalStatus(parsed) ==
    IF IsPermissionDenied(parsed) THEN 403
    ELSE IF IsQuotaExceeded(parsed) THEN 429
    ELSE 0

\* a catch block for which every error is a frame issue
RetryableFrameIssue_AnyError(parsed) == TRUE

\* route.ts:1054-1056
RetryableFrameIssue(parsed) ==
    isBlockedInputImageError(parsed.message) \/ isMissingSampleError(parsed.message)

\* a bound that leaves the last profile untried
HasRetryProfile_OffByOne(profileIndex, safetyProfiles) ==
    profileIndex + 1 < Len(safetyProfiles)

\* route.ts:1057
HasRetryProfile(profileIndex, safetyProfiles) == profileIndex < Len(safetyProfiles)

\* every raw error of the runs explored
AllFaults ==
    { RawError("plain", 0, "", {}),
      RawError("plain", 0, "", {"face generation"}),
      RawError("plain", 0, "", {"returned no video sample"}),
      RawError("json", 400, "INVALID_ARGUMENT", {"violates vertex ai usage guidelines"}),
      RawError("json", 500, "INTERNAL", {}),
      RawError("json", 403, "PERMISSION_DENIED", {}),
      RawError("json", 403, "", {"face generation"}),
      RawError("json", 0, "PERMISSION_DENIED", {}),
      RawError("json", 429, "RESOURCE_EXHAUSTED", {}),
      RawError("json", 0, "RESOURCE_EXHAUSTED", {"returned no video sample"}),
      RawError("json", 429, "PERMISSION_DENIED", {}),
      RawError("badjson", 403, "PERMISSION_DENIED", {}) }

----------------------------------------------------------------------------
(* Pure functions of the route *)

\* route.ts:99-110
RECURSIVE CandidatesFrom(_, _, _)
CandidatesFrom(baseTimestamp, offsets, candidates) ==
    IF offsets = <<>> THEN candidates
    ELSE LET candidate == Max(0, baseTimestamp + Head(offsets) * TicksPerSecond)
             normalized == (candidate \div TicksPerMs) * TicksPerMs
         IN  IF SeqContains(candidates, normalized)
             THEN CandidatesFrom(baseTimestamp, Tail(offsets), candidates)
             ELSE CandidatesFrom(baseTimestamp, Tail(offsets), Append(candidates, normalized))

\* a list that is returned as collected, empty or not
buildTimestampCandidatesWith_NoFallback(baseTimestamp, offsets) ==
    CandidatesFrom(baseTimestamp, offsets, <<>>)

\* route.ts:99-110 under the offsets configured
buildTimestampCandidatesWith(baseTimestamp, offsets) ==
    LET candidates == CandidatesFrom(baseTimestamp, offsets, <<>>)
    IN  IF Len(candidates) > 0 THEN candidates ELSE <<Max(0, baseTimestamp)>>

buildTimestampCandidates(baseTimestamp) ==
    buildTimestampCandidatesWith(baseTimestamp, TIMESTAMP_FALLBACK_OFFSETS)

\* route.ts:112-124
getSafetyProfiles(e) ==
    LET primary == [personGeneration |-> e.DEFAULT_PERSON_GENERATION]
    IN  IF e.ENABLE_FACE_SAFETY_RETRY /\ primary.personGeneration # "ALLOW_ALL"
        THEN <<primary, [personGeneration |-> "ALLOW_ALL"]>>
        ELSE <<primary>>

\* route.ts:172-184
getModelCandidates(e) ==
    IF Len(e.VEO_MODELS) > 0 THEN e.VEO_MODELS
    ELSE IF e.VEO_MODEL = "veo-3.1-generate-preview"
         THEN <<e.VEO_MODEL>>
         ELSE <<e.VEO_MODEL, "veo-3.1-generate-preview">>

IdChars == {"v", "w", "1", "_", "-"}
\* route.ts:186-189; a videoId that is no string is the empty sequence
sanitizeVideoId(raw) == SelectSeq(raw, LAMBDA ch : ch \in IdChars)

\* a validation that looks at the product's presence alone
validateProduct_PresenceOnly(product) == product # <<>>

\* route.ts:216-237; an absent product is <<>>, complete = every required
\* string non-blank and three benefits
validateProduct(product) ==
    /\ product # <<>>
    /\ product[1].complete
    /\ product[1].id # <<>>

\* a key that keeps the timestamp unrounded
buildCacheKey_RawTimestamp(input) ==
    Join(<< input.videoId,
            Digits(input.timestampSeconds),
            Digits(input.durationSeconds),
            input.productId,
            input.style,
            input.aspectRatio,
            input.resolution,
            input.seedToken >>)

\* route.ts:690-711
buildCacheKey(input) ==
    LET roundedTs == input.timestampSeconds \div TicksPerMs
    IN  Join(<< input.videoId,
                Digits(roundedTs),
                Digits(input.durationSeconds),
                input.productId,
                input.style,
                input.aspectRatio,
                input.resolution,
                input.seedToken >>)

\* route.ts:713-721; the Map as a sequence of <<key, value>> in insertion order:
\* set() on a present key replaces the value in place, on a new key appends
MapHas(cache, key) == \E i \in DOMAIN cache : cache[i][1] = key
MapGet(cache, key) == cache[CHOOSE i \in DOMAIN cache : cache[i][1] = key][2]

\* a set() that appends whether or not the key is present
MapSet_AlwaysAppends(cache, key, value) == Append(cache, <<key, value>>)

MapSet(cache, key, value) ==
    IF MapHas(cache, key)
    THEN [i \in DOMAIN cache |-> IF cache[i][1] = key THEN <<key, value>> ELSE cache[i]]
    ELSE Append(cache, <<key, value>>)

\* a write that never evicts
writeCache_NoEviction(cache, key, value, e) == MapSet(cache, key, value)

\* a write that spares the oldest entry and evicts the next one
writeCache_EvictsSecondOldest(cache, key, value, e) ==
    LET set == MapSet(cache, key, value)
    IN  IF Len(set) <= e.MAX_CACHE_ENTRIES THEN set
        ELSE IF Len(set) >= 3 THEN <<set[1]>> \o SubSeq(set, 3, Len(set))
        ELSE Tail(set)

\* a write that stores nothing
writeCache_Drops(cache, key, value, e) == cache

writeCache(cache, key, value, e) ==
    LET set == MapSet(cache, key, value)
    IN  IF Len(set) <= e.MAX_CACHE_ENTRIES THEN set ELSE Tail(set)

\* a durable store that is never consulted
readPersistentCache_Miss(store, key, e) == <<>>

\* a durable read that returns whatever JSON.parse produced
readPersistentCache_Unvalidated(store, key, e) ==
    IF ~e.CACHE_PERSIST_ENABLED THEN <<>>
    ELSE IF key \notin DOMAIN store.files THEN <<>>
    ELSE IF "raw" \in DOMAIN store.files[key] THEN <<>>
    ELSE <<store.files[key]>>

\* route.ts:728-745; the durable store is the directory CACHE_DIR, which
\* exists or not, and its files: a key (by its hash) to what its file holds.
\* A file holds the object JSON.parse makes of it, or, under the field raw,
\* the reason fs.readFile or JSON.parse throws on it; a missing file makes
\* fs.readFile throw as well, and the catch answers null. A field is a string
\* when the object has it (route.ts:734-738).
readPersistentCache(store, key, e) ==
    IF ~e.CACHE_PERSIST_ENABLED THEN <<>>
    ELSE IF key \notin DOMAIN store.files THEN <<>>
    ELSE IF "raw" \in DOMAIN store.files[key] THEN <<>>
    ELSE IF ~({"jobId", "videoUrl", "mimeType"} \subseteq DOMAIN store.files[key]) THEN <<>>
    ELSE <<store.files[key]>>

\* route.ts:750: fs.mkdir(CACHE_DIR, { recursive: true })
mkdir(store, made) == IF made THEN [store EXCEPT !.dir = TRUE] ELSE store

\* a write that lands although the directory is gone
writePersistentCache_IntoMissingDir(store, key, value, e, written) ==
    IF ~e.CACHE_PERSIST_ENABLED \/ ~written THEN store
    ELSE [dir |-> TRUE,
          files |-> [k \in DOMAIN store.files \cup {key} |->
                        IF k = key THEN value ELSE store.files[k]]]

\* route.ts:751-755: fs.writeFile into CACHE_DIR fails when the directory is
\* missing (ENOENT) or for a reason of its own (~written); the catch logs it
writePersistentCache(store, key, value, e, written) ==
    IF ~e.CACHE_PERSIST_ENABLED \/ ~written \/ ~store.dir THEN store
    ELSE [store EXCEPT !.files = [k \in DOMAIN store.files \cup {key} |->
                                    IF k = key THEN value ELSE store.files[k]]]

\* a removal that takes the directory entry and leaves the files
rm_LeavesFiles(store, removed) == [store EXCEPT !.dir = FALSE]

\* route.ts:1095: fs.rm(CACHE_DIR, { recursive: true, force: true })
rm(store, removed) == IF removed THEN [dir |-> FALSE, files |-> [k \in {} |-> <<>>]] ELSE store

EmptyStore == [dir |-> FALSE, files |-> [k \in {} |-> <<>>]]

----------------------------------------------------------------------------
(* The locals of POST *)

NoError == [kind |-> "unknown", near |-> 0, message |-> {}, at |-> 0]
NoEvent ==
    [kind |-> "none", candidate |-> 0, model |-> 0, profile |-> 0, ok |-> TRUE,
     error |-> <<>>, frames |-> <<>>, at |-> 0]
NoBody ==
    [json |-> FALSE, product |-> <<>>, videoId |-> <<>>, timestampSeconds |-> <<>>,
     context |-> "", seed |-> <<>>, style |-> <<>>, aspectRatio |-> <<>>,
     resolution |-> <<>>, durationSeconds |-> <<>>, bypassCache |-> FALSE]

IdleReq ==
    [pc |-> "idle", body |-> NoBody, videoId |-> <<>>, timestampSeconds |-> 0,
     cacheKey |-> <<>>, bypassCache |-> FALSE, diskHit |-> <<>>,
     models |-> <<>>, safetyProfiles |-> <<>>, timestampCandidates |-> <<>>,
     candidateIndex |-> 0, modelIndex |-> 0, profileIndex |-> 0,
     frames |-> <<>>, blockedFrameForCandidate |-> FALSE, lastError |-> NoError,
     generatedResponse |-> <<>>, step |-> 0, last |-> NoEvent,
     delDuring |-> FALSE, response |-> <<>>]

\* route.ts:776-778
TimestampOf(body) ==
    IF body.timestampSeconds = <<>> THEN 0 ELSE Max(0, body.timestampSeconds[1])

\* route.ts:781-789: a blank or absent override falls back to the default
OrDefault(value, default) == IF value = <<>> THEN default ELSE value

\* route.ts:790-793
SeedToken(body) ==
    IF body.seed = <<>> THEN <<"auto">>
    ELSE Digits(IF body.seed[1] < 0 THEN -body.seed[1] ELSE body.seed[1])

\* route.ts:794-803: the key of a body under the target duration d
CacheKeyWith(body, d) ==
    buildCacheKey([videoId |-> sanitizeVideoId(body.videoId),
                   timestampSeconds |-> TimestampOf(body),
                   durationSeconds |-> d,
                   productId |-> body.product[1].id,
                   style |-> OrDefault(body.style, DEFAULT_STYLE),
                   aspectRatio |-> OrDefault(body.aspectRatio, DEFAULT_ASPECT_RATIO),
                   resolution |-> OrDefault(body.resolution, DEFAULT_RESOLUTION),
                   seedToken |-> SeedToken(body)])

\* route.ts:779, 794-803: the key POST computes, the target being the constant
CacheKeyOf(body) == CacheKeyWith(body, AD_INSERT_DURATION_SECONDS)

\* route.ts:759-774: the three rejections
ValidBody(body) ==
    /\ body.json
    /\ validateProduct(body.product)
    /\ sanitizeVideoId(body.videoId) # <<>>

\* a bypass flag that reads the request body alone
BypassCache_BodyOnly(body, e) == body.bypassCache

\* route.ts:804
BypassCache(body, e) == body.bypassCache \/ e.VEO_DISABLE_CACHE

\* a target duration above what one generation covers
durationSeconds_Longer(e) == 2 * e.AD_INSERT_DURATION_SECONDS

\* route.ts:779: the target duration is the module-level constant
durationSeconds(e) == e.AD_INSERT_DURATION_SECONDS

\* route.ts:824-829
requiresSplit(e) == ~e.VEO_FORCE_SINGLE_PASS /\ durationSeconds(e) > VEO_MAX_IMAGE_TO_VIDEO_SECONDS
generatedDurationSeconds(e) ==
    IF requiresSplit(e) THEN VEO_MAX_IMAGE_TO_VIDEO_SECONDS
    ELSE Min(durationSeconds(e), VEO_MAX_IMAGE_TO_VIDEO_SECONDS)
secondKeepSeconds(e) ==
    IF requiresSplit(e) THEN Max(0, durationSeconds(e) - generatedDurationSeconds(e)) ELSE 0
holdExtensionSeconds(e) ==
    IF ~requiresSplit(e) THEN Max(0, durationSeconds(e) - generatedDurationSeconds(e)) ELSE 0

\* the response of a request, and the handler's end
Response(status, cacheHit, clip, error) ==
    [status |-> status, cacheHit |-> cacheHit, clip |-> clip, error |-> error]

Respond(r, response) == [r EXCEPT !.pc = "done", !.response = <<response>>]

\* route.ts:1085-1088
Exhausted(r) == Respond(r, Response(500, FALSE, <<>>, r.lastError))

\* a candidate loop that ends after its first candidate
NextCandidate_GivesUp(r) == Exhausted(r)

\* the head of the `for (const candidateTimestampSeconds of timestampCandidates)`
\* loop, route.ts:846, entered by `continue` at 865, 869 and 1080
NextCandidate(r) ==
    IF r.candidateIndex < Len(r.timestampCandidates)
    THEN [r EXCEPT !.pc = "frames", !.candidateIndex = @ + 1, !.frames = <<>>,
                   !.modelIndex = 0, !.profileIndex = 0,
                   !.blockedFrameForCandidate = FALSE]
    ELSE Exhausted(r)

\* route.ts:831-846: from the cache miss to the first frame extraction
BeginSearch(r, e) ==
    IF ~e.hasCredentials
    THEN Respond(r, Response(500, FALSE, <<>>,
                 [kind |-> "client", near |-> 0, message |-> {}, at |-> 0]))
    ELSE [r EXCEPT !.pc = "frames",
                   !.models = getModelCandidates(e),
                   !.safetyProfiles = getSafetyProfiles(e),
                   !.timestampCandidates = buildTimestampCandidates(r.timestampSeconds),
                   !.lastError = NoError,
                   !.candidateIndex = 1]

\* route.ts:771-804: the locals computed from a valid body
Accept(body, e) ==
    [IdleReq EXCEPT !.body = body,
                    !.videoId = sanitizeVideoId(body.videoId),
                    !.timestampSeconds = TimestampOf(body),
                    !.cacheKey = CacheKeyWith(body, durationSeconds(e)),
                    !.bypassCache = BypassCache(body, e)]

----------------------------------------------------------------------------
(* The retry search: what each outcome of a step does to the locals *)

candidateTimestampSeconds(r) == r.timestampCandidates[r.candidateIndex]

\* a step of the search, numbered in execution order
Observe(r, kind, ok, error) ==
    [r EXCEPT !.step = @ + 1,
              !.last = [kind |-> kind, candidate |-> r.candidateIndex,
                        model |-> r.modelIndex, profile |-> r.profileIndex,
                        ok |-> ok, error |-> error, frames |-> r.frames,
                        at |-> r.step + 1]]

\* route.ts:850-862: the frames of a candidate, by the timestamps extracted
FrameTimes(r, e) ==
    IF requiresSplit(e)
    THEN << candidateTimestampSeconds(r),
            candidateTimestampSeconds(r) + generatedDurationSeconds(e) * TicksPerSecond,
            candidateTimestampSeconds(r) + durationSeconds(e) * TicksPerSecond >>
    ELSE << candidateTimestampSeconds(r),
            candidateTimestampSeconds(r) + generatedDurationSeconds(e) * TicksPerSecond >>

\* route.ts:872-884: every frame resolved, the model loop is entered
FramesExtracted(r, e) ==
    Observe([r EXCEPT !.pc = "attempt",
                      !.frames = <<[at |-> r.step + 1, times |-> FrameTimes(r, e)]>>,
                      !.blockedFrameForCandidate = FALSE,
                      !.modelIndex = 1, !.profileIndex = 1],
            "frames", TRUE, <<>>)

\* a frame failure that leaves no error behind
FramesFailed_KeepsLastError(r) == NextCandidate(Observe(r, "frames", FALSE, <<>>))

\* route.ts:863-866: a frame was not obtained
FramesFailed(r) ==
    LET seen == Observe(r, "frames", FALSE, <<>>)
    IN  NextCandidate([seen EXCEPT !.lastError =
            [kind |-> "frames", near |-> candidateTimestampSeconds(r),
             message |-> {}, at |-> seen.step]])

\* a model loop followed by an unconditional `continue`
AfterModelLoop_AlwaysAdvances(r) == NextCandidate(r)

\* route.ts:1079-1083: after the model loop
AfterModelLoop(r) ==
    IF r.blockedFrameForCandidate THEN NextCandidate(r) ELSE Exhausted(r)

\* a `continue` that runs the same profile again
RetryProfile_SameProfile(r) == r

\* route.ts:1058-1060 with the loop increment of 884
RetryProfile(r) == [r EXCEPT !.profileIndex = @ + 1]

\* a blocked attempt that falls through to the next model
AbandonCandidate_TriesNextModel(r) ==
    IF r.modelIndex < Len(r.models)
    THEN [r EXCEPT !.modelIndex = @ + 1, !.profileIndex = 1]
    ELSE AfterModelLoop(r)

\* route.ts:1061-1065 and 1074-1076
AbandonCandidate(r) == AfterModelLoop([r EXCEPT !.blockedFrameForCandidate = TRUE])

\* a next model that goes on from the profile reached
NextModel_KeepsProfile(r) ==
    IF r.modelIndex < Len(r.models)
    THEN [r EXCEPT !.modelIndex = @ + 1]
    ELSE AfterModelLoop(r)

\* route.ts:1067-1071 and the head of the model loop, 882-884
NextModel(r) ==
    IF r.modelIndex < Len(r.models)
    THEN [r EXCEPT !.modelIndex = @ + 1, !.profileIndex = 1]
    ELSE AfterModelLoop(r)

\* a catch block that does not assign lastError
RecordAttemptError_Keeps(r, parsed) == r

\* route.ts:1033-1034
RecordAttemptError(r, parsed) ==
    [r EXCEPT !.lastError =
        [kind |-> "attempt", near |-> 0, message |-> parsed.message, at |-> r.step]]

\* a catch block that runs the same attempt again after an error of no class
CatchAttempt_RetriesUnclassified(r, error) ==
    LET parsed == parseStructuredApiError(error)
        r1 == RecordAttemptError(r, parsed)
    IN  IF TerminalStatus(parsed) # 0
        THEN Respond(r1, Response(TerminalStatus(parsed), FALSE, <<>>, r1.lastError))
        ELSE IF RetryableFrameIssue(parsed) /\ HasRetryProfile(r.profileIndex, r.safetyProfiles)
        THEN RetryProfile(r1)
        ELSE IF RetryableFrameIssue(parsed)
        THEN AbandonCandidate(r1)
        ELSE r1

\* route.ts:1032-1072: the catch block of an attempt
CatchAttempt(r, error) ==
    LET parsed == parseStructuredApiError(error)
        r1 == RecordAttemptError(r, parsed)
    IN  IF TerminalStatus(parsed) # 0
        THEN Respond(r1, Response(TerminalStatus(parsed), FALSE, <<>>, r1.lastError))
        ELSE IF RetryableFrameIssue(parsed) /\ HasRetryProfile(r.profileIndex, r.safetyProfiles)
        THEN RetryProfile(r1)
        ELSE IF RetryableFrameIssue(parsed)
        THEN AbandonCandidate(r1)
        ELSE NextModel(r1)

\* a response that reports the requested timestamp as applied
GeneratedResponse_AppliedIsRequested(r, op) ==
    [jobId |-> op,
     status |-> "completed",
     modelUsed |-> r.models[r.modelIndex],
     mimeType |-> "video/mp4",
     videoUrl |-> op,
     requestedTimestampSeconds |-> r.timestampSeconds,
     appliedTimestampSeconds |-> r.timestampSeconds,
     personGenerationUsed |-> r.safetyProfiles[r.profileIndex].personGeneration]

\* a payload cached while the operation is still running
GeneratedResponse_Partial(r, op) ==
    [jobId |-> op,
     status |-> "processing",
     modelUsed |-> r.models[r.modelIndex],
     mimeType |-> "video/mp4",
     videoUrl |-> op,
     requestedTimestampSeconds |-> r.timestampSeconds,
     appliedTimestampSeconds |-> candidateTimestampSeconds(r),
     personGenerationUsed |-> r.safetyProfiles[r.profileIndex].personGeneration]

\* route.ts:1007-1020 (960-971 when split): op names the completed operation
\* and stands for the bytes it produced
GeneratedResponse(r, op) ==
    [jobId |-> op,
     status |-> "completed",
     modelUsed |-> r.models[r.modelIndex],
     mimeType |-> "video/mp4",
     videoUrl |-> op,
     requestedTimestampSeconds |-> r.timestampSeconds,
     appliedTimestampSeconds |-> candidateTimestampSeconds(r),
     personGenerationUsed |-> r.safetyProfiles[r.profileIndex].personGeneration]

\* a durable write whose error reaches the catch block of the attempt
AfterPersistentWrite_Rethrows(r, failed) ==
    IF failed
    THEN CatchAttempt(r, RawError("plain", 0, "", {}))
    ELSE Respond(r, Response(200, FALSE, r.generatedResponse, NoError))

\* route.ts:753-755, 1028-1031: writePersistentCache returns, having written
\* or having caught and logged its error (failed), and the clip is returned
AfterPersistentWrite(r, failed) ==
    Respond(r, Response(200, FALSE, r.generatedResponse, NoError))

----------------------------------------------------------------------------
(* Actions of POST, route.ts:758-1089 *)

\* what the log keeps of a response: the request, the status, the clip returned
LogEntry(kind, p, r) ==
    [kind |-> kind, proc |-> p, body |-> r.body,
     status |-> IF r.response = <<>> THEN 0 ELSE r.response[1].status,
     cacheHit |-> IF r.response = <<>> THEN FALSE ELSE r.response[1].cacheHit,
     clip |-> IF r.response = <<>> THEN <<>> ELSE r.response[1].clip,
     delDuring |-> r.delDuring]

\* the log reaches back to the last POST response before the newest one
RECURSIVE SincePost(_)
SincePost(l) ==
    IF l = <<>> THEN <<>>
    ELSE IF l[Len(l)].kind = "POST" THEN <<l[Len(l)]>>
    ELSE Append(SincePost(SubSeq(l, 1, Len(l) - 1)), l[Len(l)])

\* the handler moves to r2; a response is logged as it is sent
Commit(p, r2) ==
    /\ req' = [req EXCEPT ![p] = r2]
    /\ log' = IF r2.pc = "done"
              THEN Append(SincePost(log), LogEntry("POST", p, r2))
              ELSE log

Arrives(p) ==
    /\ req[p].pc \in {"idle", "done"}
    /\ pending # <<>>
    /\ pending' = Tail(pending)

\* route.ts:759-774
PostReject(p) ==
    /\ Arrives(p)
    /\ ~ValidBody(Head(pending))
    /\ Commit(p, Respond([IdleReq EXCEPT !.body = Head(pending)],
                         Response(400, FALSE, <<>>,
                                  [kind |-> "invalid", near |-> 0, message |-> {}, at |-> 0])))
    /\ UNCHANGED <<call, env, faults, deletesLeft, adClipCache, disk, del, nextOp>>

\* route.ts:806-813
PostCacheHit(p) ==
    /\ Arrives(p)
    /\ ValidBody(Head(pending))
    /\ LET r == Accept(Head(pending), env)
       IN  /\ ~r.bypassCache
           /\ MapHas(adClipCache, r.cacheKey)
           /\ Commit(p, Respond(r, Response(200, TRUE, <<MapGet(adClipCache, r.cacheKey)>>, NoError)))
    /\ UNCHANGED <<call, env, faults, deletesLeft, adClipCache, disk, del, nextOp>>

\* route.ts:807-814: the in-memory miss, the durable read is issued
PostCacheMiss(p) ==
    /\ Arrives(p)
    /\ ValidBody(Head(pending))
    /\ LET r == Accept(Head(pending), env)
       IN  /\ ~r.bypassCache
           /\ ~MapHas(adClipCache, r.cacheKey)
           /\ Commit(p, [r EXCEPT !.pc = "readDisk"])
    /\ UNCHANGED <<call, env, faults, deletesLeft, adClipCache, disk, del, nextOp>>

\* route.ts:806 with bypassCache set: straight to the search
PostBypass(p) ==
    /\ Arrives(p)
    /\ ValidBody(Head(pending))
    /\ LET r == Accept(Head(pending), env)
       IN  /\ r.bypassCache
           /\ Commit(p, BeginSearch(r, env))
    /\ UNCHANGED <<call, env, faults, deletesLeft, adClipCache, disk, del, nextOp>>

\* route.ts:728-745: the file is read
PostReadDisk(p) ==
    /\ req[p].pc = "readDisk"
    /\ Commit(p, [req[p] EXCEPT !.pc = "diskRead",
                                !.diskHit = readPersistentCache(disk, req[p].cacheKey, env)])
    /\ UNCHANGED <<call, env, faults, pending, deletesLeft, adClipCache, disk, del, nextOp>>

\* route.ts:815-821
PostDiskHit(p) ==
    /\ req[p].pc = "diskRead"
    /\ req[p].diskHit # <<>>
    /\ adClipCache' = writeCache(adClipCache, req[p].cacheKey, req[p].diskHit[1], env)
    /\ Commit(p, Respond(req[p], Response(200, TRUE, req[p].diskHit, NoError)))
    /\ UNCHANGED <<call, env, faults, pending, deletesLeft, disk, del, nextOp>>

\* route.ts:815, 824-846
PostDiskMiss(p) ==
    /\ req[p].pc = "diskRead"
    /\ req[p].diskHit = <<>>
    /\ Commit(p, BeginSearch(req[p], env))
    /\ UNCHANGED <<call, env, faults, pending, deletesLeft, adClipCache, disk, del, nextOp>>

\* route.ts:850-862, 872-884
PostFramesOk(p) ==
    /\ req[p].pc = "frames"
    /\ Commit(p, FramesExtracted(req[p], env))
    /\ UNCHANGED <<call, env, faults, pending, deletesLeft, adClipCache, disk, del, nextOp>>

\* route.ts:863-866: Promise.all rejects when any one extraction does
PostFramesFail(p) ==
    /\ req[p].pc = "frames"
    /\ \E failed \in (SUBSET (1 .. Len(FrameTimes(req[p], env)))) \ {{}} :
          Commit(p, FramesFailed(req[p]))
    /\ UNCHANGED <<call, env, faults, pending, deletesLeft, adClipCache, disk, del, nextOp>>

\* route.ts:886-1026: the attempt returned a clip, which is cached
PostGenerated(p) ==
    /\ req[p].pc = "attempt"
    /\ ~req[p].bypassCache
    /\ LET seen == Observe(req[p], "attempt", TRUE, <<>>)
           clip == GeneratedResponse(seen, nextOp)
       IN  /\ adClipCache' = writeCache(adClipCache, seen.cacheKey, clip, env)
           /\ Commit(p, [seen EXCEPT !.pc = "persist", !.generatedResponse = <<clip>>])
    /\ nextOp' = nextOp + 1
    /\ UNCHANGED <<call, env, faults, pending, deletesLeft, disk, del>>

\* route.ts:886-1031 with bypassCache set: the clip is returned uncached
PostGeneratedBypass(p) ==
    /\ req[p].pc = "attempt"
    /\ req[p].bypassCache
    /\ LET seen == Observe(req[p], "attempt", TRUE, <<>>)
           clip == GeneratedResponse(seen, nextOp)
       IN  Commit(p, Respond([seen EXCEPT !.generatedResponse = <<clip>>],
                             Response(200, FALSE, <<clip>>, NoError)))
    /\ nextOp' = nextOp + 1
    /\ UNCHANGED <<call, env, faults, pending, deletesLeft, adClipCache, disk, del>>

\* route.ts:1032-1072: the attempt threw
PostAttemptFail(p) ==
    /\ req[p].pc = "attempt"
    /\ \E error \in faults :
          Commit(p, CatchAttempt(Observe(req[p], "attempt", FALSE, <<error>>), error))
    /\ UNCHANGED <<call, env, faults, pending, deletesLeft, adClipCache, disk, del, nextOp>>

\* route.ts:748-750, 753-755, 1028-1031: persistence is off and the clip is
\* returned, or the directory is made, or making it fails and the clip is returned
PostMkdir(p) ==
    /\ req[p].pc = "persist"
    /\ \E made \in BOOLEAN :
          /\ made => env.CACHE_PERSIST_ENABLED
          /\ disk' = mkdir(disk, made)
          /\ Commit(p, IF made
                       THEN [req[p] EXCEPT !.pc = "writeFile"]
                       ELSE AfterPersistentWrite(req[p], env.CACHE_PERSIST_ENABLED))
    /\ UNCHANGED <<call, env, faults, pending, deletesLeft, adClipCache, del, nextOp>>

\* route.ts:751-755, 1028-1031: the file write ends, well or not, and the clip is returned
PostPersist(p) ==
    /\ req[p].pc = "writeFile"
    /\ \E written \in BOOLEAN :
          /\ disk' = writePersistentCache(disk, req[p].cacheKey, req[p].generatedResponse[1],
                                          env, written)
          /\ Commit(p, AfterPersistentWrite(req[p], ~written \/ ~disk.dir))
    /\ UNCHANGED <<call, env, faults, pending, deletesLeft, adClipCache, del, nextOp>>

----------------------------------------------------------------------------
(* Actions of DELETE, route.ts:1091-1098 *)

InFlight(r) == r.pc \notin {"idle", "done"}
MarkDelete == [p \in Procs |-> IF InFlight(req[p]) THEN [req[p] EXCEPT !.delDuring = TRUE] ELSE req[p]]

DeleteEntry(kind) == LogEntry(kind, 0, IdleReq)

\* route.ts:1092-1093
DeleteClear ==
    /\ deletesLeft > 0
    /\ del.pc = "idle"
    /\ deletesLeft' = deletesLeft - 1
    /\ del' = [pc |-> IF env.CACHE_PERSIST_ENABLED THEN "rm" ELSE "idle",
               cleared |-> Len(adClipCache)]
    /\ adClipCache' = <<>>
    /\ req' = MarkDelete
    /\ log' = Append(log, DeleteEntry("DELETE.clear"))
    /\ UNCHANGED <<call, env, faults, pending, disk, nextOp>>

\* route.ts:1094-1097
DeleteRm ==
    /\ del.pc = "rm"
    /\ del' = [del EXCEPT !.pc = "idle"]
    /\ \E removed \in BOOLEAN : disk' = rm(disk, removed)
    /\ req' = MarkDelete
    /\ log' = Append(log, DeleteEntry("DELETE.rm"))
    /\ UNCHANGED <<call, env, faults, pending, deletesLeft, adClipCache, nextOp>>

----------------------------------------------------------------------------
(* Configurations and inputs *)

ModelNames == <<"m1", "m2", "m3", "m4">>

Env(persist, capacity, person, retry, models, disable, credentials) ==
    [AD_INSERT_DURATION_SECONDS |-> AD_INSERT_DURATION_SECONDS,
     CACHE_PERSIST_ENABLED |-> persist,
     MAX_CACHE_ENTRIES |-> capacity,
     DEFAULT_PERSON_GENERATION |-> person,
     ENABLE_FACE_SAFETY_RETRY |-> retry,
     VEO_FORCE_SINGLE_PASS |-> TRUE,
     VEO_MODELS |-> models,
     VEO_MODEL |-> "veo-3.1-fast-generate-preview",
     VEO_DISABLE_CACHE |-> disable,
     hasCredentials |-> credentials]

Product(id) == <<[id |-> id, complete |-> TRUE]>>

Body(videoId, timestamp, product, context, bypass) ==
    [json |-> TRUE, product |-> product, videoId |-> videoId,
     timestampSeconds |-> timestamp, context |-> context, seed |-> <<>>,
     style |-> <<>>, aspectRatio |-> <<>>, resolution |-> <<>>,
     durationSeconds |-> <<>>, bypassCache |-> bypass]

InvalidBodies ==
    { NoBody,
      Body(<<"v">>, <<0>>, <<>>, "a", FALSE),
      Body(<<"v">>, <<0>>, <<[id |-> <<"p">>, complete |-> FALSE]>>, "a", FALSE),
      Body(<<"!">>, <<0>>, Product(<<"p">>), "a", FALSE) }

BodyTimestamps == { <<>>, <<-TicksPerSecond>>, <<1>>, <<5 * TicksPerSecond>> }

SearchBodies ==
    InvalidBodies \cup
    { Body(<<"v">>, t, Product(<<"p">>), "a", b) : t \in BodyTimestamps, b \in BOOLEAN }

SearchEnvs ==
    { Env(TRUE, MaxCacheItems, person, retry, SubSeq(ModelNames, 1, n), FALSE, cred) :
        person \in {"ALLOW_ADULT", "ALLOW_ALL"}, retry \in BOOLEAN,
        n \in 0 .. MaxModels, cred \in BOOLEAN }

\* a clip an earlier request generated for this body and cached
EarlierClip(body) ==
    [jobId |-> 0,
     status |-> "completed",
     modelUsed |-> "m1",
     mimeType |-> "video/mp4",
     videoUrl |-> 0,
     requestedTimestampSeconds |-> TimestampOf(body),
     appliedTimestampSeconds |-> buildTimestampCandidates(TimestampOf(body))[1],
     personGenerationUsed |-> "ALLOW_ADULT"]

Stored(body) == [dir |-> TRUE, files |-> [k \in {CacheKeyOf(body)} |-> EarlierClip(body)]]

\* no helper call is followed
NoCall == [fn |-> "none"]

Quiet ==
    /\ req = [p \in Procs |-> IdleReq]
    /\ del = [pc |-> "idle", cleared |-> 0]
    /\ nextOp = 1
    /\ log = <<>>

\* the two requests served before the run starts, the older one first
EarlierBodies ==
    << Body(<<"v">>, <<0>>, Product(<<"p">>), "a", FALSE),
       Body(<<"v">>, <<0>>, Product(<<"w">>), "a", FALSE) >>

\* the caches after the earlier requests: both clips in memory, in the order
\* they were generated, and on disk when persistence is on
WarmCache ==
    [i \in 1 .. Min(Len(EarlierBodies), MaxCacheItems) |->
        <<CacheKeyOf(EarlierBodies[i]), [EarlierClip(EarlierBodies[i]) EXCEPT !.jobId = 1 - i, !.videoUrl = 1 - i]>>]

WarmStore ==
    [dir |-> TRUE,
     files |-> [k \in {WarmCache[i][1] : i \in DOMAIN WarmCache} |-> MapGet(WarmCache, k)]]

\* One request under every error the provider may answer with, served by a
\* process whose caches are empty or hold clips of earlier requests (in the
\* durable store alone, as after a restart, or in both layers): the clip of
\* an earlier request for the same key when the request looks the cache up,
\* the clips of other requests when it is rejected or bypasses the cache.
InitSearch ==
    /\ Quiet
    /\ call = NoCall
    /\ env \in SearchEnvs
    /\ faults = AllFaults
    /\ pending \in { <<b>> : b \in SearchBodies }
    /\ deletesLeft = 0
    /\ \E warm \in {"cold", "durable", "both"} :
          LET looksUp == ValidBody(pending[1]) /\ ~pending[1].bypassCache
          IN  /\ disk = IF warm = "cold" THEN EmptyStore
                        ELSE IF looksUp THEN Stored(pending[1])
                        ELSE WarmStore
              /\ adClipCache = IF warm # "both" THEN <<>>
                               ELSE IF looksUp
                               THEN <<<<CacheKeyOf(pending[1]), EarlierClip(pending[1])>>>>
                               ELSE WarmCache

CacheBodies ==
    { NoBody,
      Body(<<"v">>, <<0>>, Product(<<"p">>), "a", FALSE),
      Body(<<"v">>, <<1>>, Product(<<"p">>), "b", FALSE),
      Body(<<"v">>, <<0>>, Product(<<"q">>), "a", FALSE) }

CacheEnvs ==
    { Env(persist, MaxCacheItems, "ALLOW_ADULT", FALSE, <<"m1">>, disable, TRUE) :
        persist \in BOOLEAN, disable \in BOOLEAN }

RECURSIVE SeqsOf(_, _)
SeqsOf(S, n) ==
    IF n = 0 THEN {<<>>} ELSE {Append(q, x) : q \in SeqsOf(S, n - 1), x \in S}

\* MaxPending requests and one DELETE against caches that are empty or hold
\* the clips of earlier requests, the provider answering with a clip or
\* with an error of no special class
Init ==
    /\ Quiet
    /\ call = NoCall
    /\ env \in CacheEnvs
    /\ faults = {RawError("plain", 0, "", {})}
    /\ pending \in SeqsOf(CacheBodies, MaxPending)
    /\ deletesLeft = 1
    /\ \E warm \in BOOLEAN :
          /\ warm => ~env.VEO_DISABLE_CACHE
          /\ adClipCache = IF warm THEN WarmCache ELSE <<>>
          /\ disk = IF warm /\ env.CACHE_PERSIST_ENABLED THEN WarmStore ELSE EmptyStore

Post(p) ==
    \/ PostReject(p)
    \/ PostCacheHit(p)
    \/ PostCacheMiss(p)
    \/ PostBypass(p)
    \/ PostReadDisk(p)
    \/ PostDiskHit(p)
    \/ PostDiskMiss(p)
    \/ PostFramesOk(p)
    \/ PostFramesFail(p)
    \/ PostGenerated(p)
    \/ PostGeneratedBypass(p)
    \/ PostAttemptFail(p)
    \/ PostMkdir(p)
    \/ PostPersist(p)

NextPost == \E p \in Procs : Post(p)

Next ==
    \/ \E p \in Procs : Post(p)
    \/ DeleteClear
    \/ DeleteRm

\* the route under requests and DELETE calls
Spec == Init /\ [][Next]_vars

\* one POST request on its own
SpecSearch == InitSearch /\ [][NextPost]_vars

----------------------------------------------------------------------------
(* The classes of the spec's error taxonomy, on the raw error of a failed   *)
(* attempt: one class per error, PermissionDenied before QuotaExceeded      *)
(* before the two policy classes.                                           *)

StructuredCode(error) == IF error.form = "json" THEN error.code ELSE 0
StructuredStatus(error) == IF error.form = "json" THEN error.status ELSE ""

ErrorClass(error) ==
    IF StructuredCode(error) = 403 \/ StructuredStatus(error) = "PERMISSION_DENIED"
    THEN "PermissionDenied"
    ELSE IF StructuredCode(error) = 429 \/ StructuredStatus(error) = "RESOURCE_EXHAUSTED"
    THEN "QuotaExceeded"
    ELSE IF error.msg \cap (FacePhrases \cup UsagePhrases) # {}
    THEN "BlockedInputImage"
    ELSE IF error.msg \cap MissingPhrases # {}
    THEN "MissingGeneratedSample"
    ELSE "Other"

TerminalClasses == {"PermissionDenied", "QuotaExceeded"}
PolicyClasses == {"BlockedInputImage", "MissingGeneratedSample"}

\* the most recent step of request r is a generation attempt that failed
\* with an error of one of the classes
AttemptFailedWith(r, classes) ==
    /\ r.last.kind = "attempt"
    /\ ~r.last.ok
    /\ ErrorClass(r.last.error[1]) \in classes

FramesFailedLast(r) == r.last.kind = "frames" /\ ~r.last.ok

HasResponse(r) == r.pc = "done" /\ r.response # <<>>
StatusOf(r) == r.response[1].status

\* request p takes its next step of the search
Steps(p) == req'[p].step = req[p].step + 1 /\ req'[p].body = req[p].body

----------------------------------------------------------------------------
(* C1: in POST, a generation attempt that fails with PermissionDenied or    *)
(* QuotaExceeded ends the request at once: the handler has returned (403 or *)
(* 429) in the very step that saw the failure, so no attempt and no frame   *)
(* extraction follows it, whatever profiles, models or candidates remain.   *)
C1_TerminalErrorEndsRequest ==
    \A p \in Procs :
        AttemptFailedWith(req[p], TerminalClasses) =>
            /\ HasResponse(req[p])
            /\ StatusOf(req[p]) \in {403, 429}
            /\ ~ENABLED PostFramesOk(p) /\ ~ENABLED PostFramesFail(p)
            /\ ~ENABLED PostAttemptFail(p) /\ ~ENABLED PostGenerated(p)
            /\ ~ENABLED PostGeneratedBypass(p)

\* a terminal error on the first attempt, with a later profile, model and candidate untried
C1_Witness ==
    \E p \in Procs :
        /\ AttemptFailedWith(req[p], TerminalClasses)
        /\ req[p].last.at = 2
        /\ Len(req[p].safetyProfiles) > 1
        /\ Len(req[p].models) > 1
        /\ Len(req[p].timestampCandidates) > 1
        /\ HasResponse(req[p])

(* C2: the status of a failed POST tells the terminal causes apart: a       *)
(* PermissionDenied failure yields 403, a QuotaExceeded failure 429, and    *)
(* neither status comes from anything else; the search running out yields   *)
(* 500 and an invalid request 400.                                          *)
C2_StatusNamesTheCause ==
    \A p \in Procs :
        HasResponse(req[p]) =>
            LET r == req[p] IN
            /\ AttemptFailedWith(r, {"PermissionDenied"}) => StatusOf(r) = 403
            /\ AttemptFailedWith(r, {"QuotaExceeded"}) => StatusOf(r) = 429
            /\ StatusOf(r) = 403 => AttemptFailedWith(r, {"PermissionDenied"})
            /\ StatusOf(r) = 429 => AttemptFailedWith(r, {"QuotaExceeded"})
            /\ ~ValidBody(r.body) <=> StatusOf(r) = 400
            /\ (/\ r.step > 0
                /\ ~r.last.ok
                /\ ~AttemptFailedWith(r, TerminalClasses)) => StatusOf(r) = 500

\* a quota failure known by its status field alone, answered 429
C2_Witness ==
    \E p \in Procs :
        /\ HasResponse(req[p])
        /\ StatusOf(req[p]) = 429
        /\ req[p].last.error[1].code = 0
        /\ req[p].last.error[1].status = "RESOURCE_EXHAUSTED"

(* C3: after an attempt at (candidate c, model m, profile p) fails with     *)
(* BlockedInputImage or MissingGeneratedSample while a later profile        *)
(* exists, the request is waiting to attempt again, and its next step is    *)
(* the attempt at (c, m, p+1) with the frames the failed attempt used: no   *)
(* frame extraction comes between, candidate and model stay.                *)
RetryCase(r) ==
    /\ AttemptFailedWith(r, PolicyClasses)
    /\ r.last.profile < Len(r.safetyProfiles)

C3_RetryNextProfileSameFrames ==
    /\ [](\A p \in Procs : RetryCase(req[p]) => req[p].pc = "attempt")
    /\ [][\A p \in Procs :
            RetryCase(req[p]) /\ Steps(p) =>
                /\ req'[p].last.kind = "attempt"
                /\ req'[p].last.candidate = req[p].last.candidate
                /\ req'[p].last.model = req[p].last.model
                /\ req'[p].last.profile = req[p].last.profile + 1
                /\ req'[p].last.frames = req[p].last.frames]_vars

\* the second profile is attempted, on the frames extracted for the first
C3_Witness ==
    \E p \in Procs :
        /\ req[p].last.kind = "attempt"
        /\ req[p].last.profile = 2
        /\ req[p].last.frames # <<>>
        /\ req[p].last.at = req[p].last.frames[1].at + 2

(* C4: when an attempt fails with BlockedInputImage or                      *)
(* MissingGeneratedSample on the last safety profile of a model, the        *)
(* candidate is abandoned: no remaining model is attempted for it.  If a    *)
(* candidate remains the request is waiting to extract the next candidate's *)
(* frames, that extraction is its next step, and the attempt that follows a *)
(* successful extraction is the one with the first model and the first      *)
(* profile at that candidate; the candidate index never goes back.          *)
AbandonCase(r) ==
    /\ AttemptFailedWith(r, PolicyClasses)
    /\ r.last.profile = Len(r.safetyProfiles)

C4_ProfilesExhaustedAbandonsCandidate ==
    /\ [](\A p \in Procs :
            AbandonCase(req[p]) /\ req[p].last.candidate < Len(req[p].timestampCandidates) =>
                /\ req[p].pc = "frames"
                /\ req[p].candidateIndex = req[p].last.candidate + 1)
    /\ [][\A p \in Procs :
            /\ AbandonCase(req[p]) /\ Steps(p) =>
                  /\ req'[p].last.kind = "frames"
                  /\ req'[p].last.candidate = req[p].last.candidate + 1
            /\ req[p].last.kind = "frames" /\ req[p].last.ok /\ Steps(p) =>
                  /\ req'[p].last.kind = "attempt"
                  /\ req'[p].last.candidate = req[p].last.candidate
                  /\ req'[p].last.model = 1
                  /\ req'[p].last.profile = 1
            /\ Steps(p) => req'[p].last.candidate >= req[p].last.candidate]_vars

\* the first model's last profile was blocked, a second model was left
\* untried, and the next candidate's frames have been extracted
C4_Witness ==
    \E p \in Procs :
        /\ req[p].last.kind = "frames"
        /\ req[p].last.ok
        /\ req[p].last.candidate = 2
        /\ req[p].last.at = 4
        /\ Len(req[p].safetyProfiles) = 2
        /\ Len(req[p].models) > 1
        /\ req[p].lastError.kind = "attempt"
        /\ req[p].lastError.message \cap FacePhrases # {}

(* C5: after an attempt at (candidate c, model m, any profile) fails with   *)
(* an error of no special class while a later model exists, the request is  *)
(* waiting to attempt again and its next step is the attempt at             *)
(* (c, m+1, first profile) with the same frames; model m's remaining        *)
(* profiles are not tried.                                                  *)
NextModelCase(r) ==
    /\ AttemptFailedWith(r, {"Other"})
    /\ r.last.model < Len(r.models)

C5_OtherErrorMovesToNextModel ==
    /\ [](\A p \in Procs : NextModelCase(req[p]) => req[p].pc = "attempt")
    /\ [][\A p \in Procs :
            NextModelCase(req[p]) /\ Steps(p) =>
                /\ req'[p].last.kind = "attempt"
                /\ req'[p].last.candidate = req[p].last.candidate
                /\ req'[p].last.model = req[p].last.model + 1
                /\ req'[p].last.profile = 1
                /\ req'[p].last.frames = req[p].last.frames]_vars

\* model 2 is attempted right after model 1 failed on its first profile,
\* its second profile still untried
C5_Witness ==
    \E p \in Procs :
        /\ req[p].last.kind = "attempt"
        /\ req[p].last.model = 2
        /\ req[p].last.profile = 1
        /\ req[p].last.at = 3
        /\ Len(req[p].safetyProfiles) = 2
        /\ req[p].last.frames = req[p].frames

(* C6, as claimed: when every model has failed for a candidate with an      *)
(* error of no special class and a later candidate exists, the orchestrator *)
(* advances to that candidate instead of ending the request.                *)
ModelsExhaustedCase(r) ==
    /\ AttemptFailedWith(r, {"Other"})
    /\ r.last.model = Len(r.models)
    /\ r.last.candidate < Len(r.timestampCandidates)

C6_AsClaimed_AdvancesToNextCandidate ==
    \A p \in Procs :
        ModelsExhaustedCase(req[p]) =>
            /\ req[p].pc = "frames"
            /\ req[p].candidateIndex = req[p].last.candidate + 1

(* C6, amended: when every model has failed for a candidate with an error   *)
(* of no special class, the request ends there even though a later          *)
(* candidate exists: POST returns 500 reporting that last error, and no     *)
(* frame extraction or attempt is made for the later candidates.            *)
C6_ModelsExhaustedEndsRequest ==
    \A p \in Procs :
        ModelsExhaustedCase(req[p]) =>
            /\ HasResponse(req[p])
            /\ StatusOf(req[p]) = 500
            /\ req[p].response[1].error.at = req[p].last.at
            /\ req[p].candidateIndex = req[p].last.candidate
            /\ ~ENABLED PostFramesOk(p) /\ ~ENABLED PostFramesFail(p)
            /\ ~ENABLED PostAttemptFail(p) /\ ~ENABLED PostGenerated(p)
            /\ ~ENABLED PostGeneratedBypass(p)

\* two models failed at the first of three candidates
C6_Witness ==
    \E p \in Procs :
        /\ ModelsExhaustedCase(req[p])
        /\ req[p].last.model = 2
        /\ req[p].last.candidate = 1
        /\ Len(req[p].timestampCandidates) = 3

(* C7: when a required frame of a candidate cannot be obtained, the failure *)
(* is recorded as the last error, no generation attempt is made for that    *)
(* candidate, and the orchestrator moves to the next candidate: its next    *)
(* step is that candidate's frame extraction (the request ends with 500     *)
(* when none is left).                                                      *)
C7_FrameFailureSkipsCandidate ==
    /\ [](\A p \in Procs :
            FramesFailedLast(req[p]) =>
                LET r == req[p] IN
                /\ r.lastError.kind = "frames"
                /\ r.lastError.at = r.last.at
                /\ r.lastError.near = r.timestampCandidates[r.last.candidate]
                /\ r.frames = <<>>
                /\ IF r.last.candidate < Len(r.timestampCandidates)
                   THEN r.pc = "frames" /\ r.candidateIndex = r.last.candidate + 1
                   ELSE HasResponse(r) /\ StatusOf(r) = 500)
    /\ [][\A p \in Procs :
            FramesFailedLast(req[p]) /\ Steps(p) =>
                /\ req'[p].last.kind = "frames"
                /\ req'[p].last.candidate = req[p].last.candidate + 1]_vars

\* the first candidate's frames failed and the second candidate's were extracted next
C7_Witness ==
    \E p \in Procs :
        /\ req[p].last.kind = "frames"
        /\ req[p].last.candidate = 2
        /\ req[p].last.at = 2
        /\ req[p].lastError.kind = "frames"
        /\ req[p].lastError.at = 1

(* C8: when the search ends without a success and without a terminal        *)
(* PermissionDenied/QuotaExceeded, POST returns one error, status 500,      *)
(* whose cause is the error of the most recent failed step of the request   *)
(* (frame extraction or attempt, in execution order), never an earlier one. *)
SearchFailed(r) ==
    /\ HasResponse(r)
    /\ r.step > 0
    /\ ~r.last.ok
    /\ ~AttemptFailedWith(r, TerminalClasses)

C8_ReportsLastError ==
    \A p \in Procs :
        SearchFailed(req[p]) =>
            LET r == req[p]
                cause == r.response[1].error
            IN  /\ StatusOf(r) = 500
                /\ r.response[1].clip = <<>>
                /\ cause.at = r.step
                /\ cause.at = r.last.at
                /\ IF r.last.kind = "frames"
                   THEN cause.kind = "frames"
                        /\ cause.near = r.timestampCandidates[r.last.candidate]
                   ELSE cause.kind = "attempt"
                        /\ cause.message = r.last.error[1].msg

\* a frame failure at the last candidate is reported although attempt errors came before it
C8_Witness ==
    \E p \in Procs :
        /\ SearchFailed(req[p])
        /\ req[p].last.kind = "frames"
        /\ req[p].step >= 4
        /\ req[p].response[1].error.kind = "frames"

(* C9, as claimed: on success appliedTimestampSeconds is the candidate at   *)
(* which the successful attempt ran and requestedTimestampSeconds is the    *)
(* requested timestamp; when the success comes at candidate 1 (offset +3 s) *)
(* appliedTimestampSeconds = requested + 3 and no later candidate is tried. *)
Generated(r) ==
    /\ HasResponse(r)
    /\ StatusOf(r) = 200
    /\ ~r.response[1].cacheHit

SecondCandidateIsPlus3 ==
    Len(TIMESTAMP_FALLBACK_OFFSETS) >= 2 /\ TIMESTAMP_FALLBACK_OFFSETS[2] = 3

Clamped(body) ==
    IF body.timestampSeconds = <<>> \/ body.timestampSeconds[1] < 0
    THEN 0
    ELSE body.timestampSeconds[1]

WholeMs(t) == t - (t % TicksPerMs)

----------------------------------------------------------------------------
(* C10, as claimed: of any two POST requests with identical CacheKey fields *)
(* the second returns cacheHit=true and the clip content of the first,      *)
(* whatever their sceneContext.                                             *)
KeyFields(body) ==
    [videoId |-> sanitizeVideoId(body.videoId),
     milliseconds |-> TimestampOf(body) \div TicksPerMs,
     durationSeconds |-> AD_INSERT_DURATION_SECONDS,
     productId |-> body.product[1].id,
     style |-> OrDefault(body.style, DEFAULT_STYLE),
     aspectRatio |-> OrDefault(body.aspectRatio, DEFAULT_ASPECT_RATIO),
     resolution |-> OrDefault(body.resolution, DEFAULT_RESOLUTION),
     seed |-> SeedToken(body)]

\* log[i] and log[j] are the responses of two requests with the same key fields
SameKeyPair(i, j) ==
    /\ i < j
    /\ log[i].kind = "POST" /\ log[j].kind = "POST"
    /\ ValidBody(log[i].body) /\ ValidBody(log[j].body)
    /\ KeyFields(log[i].body) = KeyFields(log[j].body)

SecondIsHitOfFirst(i, j) ==
    /\ log[j].status = 200
    /\ log[j].cacheHit
    /\ log[j].clip = log[i].clip

C10_AsClaimed_SecondCallHits ==
    \A i, j \in DOMAIN log : SameKeyPair(i, j) => SecondIsHitOfFirst(i, j)

(* C10, amended: of two POST requests with identical CacheKey fields,       *)
(* neither bypassing the cache, the first of which returned a clip, the     *)
(* second returns cacheHit=true and the clip content of the first, whatever *)
(* their sceneContext, provided the cache holds at least one entry and the  *)
(* entry was not removed in between: no DELETE ran from the first request's *)
(* arrival to the second's response and no other request wrote to the       *)
(* cache between the two.                                                   *)
Bypasses(body) == body.bypassCache \/ env.VEO_DISABLE_CACHE

Undisturbed(i, j) ==
    /\ ~log[i].delDuring
    /\ ~log[j].delDuring
    /\ \A k \in DOMAIN log : i < k /\ k < j => FALSE

C10_SecondCallHitsKeptEntry ==
    \A i, j \in DOMAIN log :
        (/\ SameKeyPair(i, j)
         /\ log[i].status = 200
         /\ ~Bypasses(log[i].body) /\ ~Bypasses(log[j].body)
         /\ Undisturbed(i, j)) => SecondIsHitOfFirst(i, j)

\* a generated clip is served again to a request that differs in its
\* context and below the millisecond in its timestamp
C10_Witness ==
    \E i, j \in DOMAIN log :
        /\ SameKeyPair(i, j)
        /\ Undisturbed(i, j)
        /\ log[i].status = 200 /\ ~log[i].cacheHit
        /\ log[i].body.context # log[j].body.context
        /\ log[i].body.timestampSeconds # log[j].body.timestampSeconds
        /\ SecondIsHitOfFirst(i, j)

----------------------------------------------------------------------------
(* C11: every entry of the in-memory cache and of the durable store is the  *)
(* assembled clip of a generation that completed (status completed, the     *)
(* bytes those of a finished operation), and an entry appears in either     *)
(* layer only by the step of a request whose attempt succeeded, or, in      *)
(* memory, by copying the entry the request read from the durable store:    *)
(* never by a failed frame extraction or a failed attempt.                  *)
CompletedClip(clip) ==
    /\ clip.status = "completed"
    /\ clip.jobId < nextOp
    /\ clip.videoUrl = clip.jobId

Entries(cache) == {cache[i] : i \in DOMAIN cache}
Files(store) == {<<k, store.files[k]>> : k \in DOMAIN store.files}

Succeeded(r) == r.last.kind = "attempt" /\ r.last.ok /\ r.generatedResponse # <<>>

OnlyCompletedClipsCached ==
    /\ \A entry \in Entries(adClipCache) : CompletedClip(entry[2])
    /\ \A file \in Files(disk) : CompletedClip(file[2])

OnlySuccessWrites ==
    /\ \A entry \in Entries(adClipCache') \ Entries(adClipCache) :
          \E p \in Procs :
              \/ /\ Succeeded(req'[p])
                 /\ req'[p].last.at = req[p].step + 1
                 /\ entry = <<req'[p].cacheKey, req'[p].generatedResponse[1]>>
              \/ /\ req[p].pc = "diskRead"
                 /\ entry = <<req[p].cacheKey, req[p].diskHit[1]>>
    /\ \A file \in Files(disk') \ Files(disk) :
          \E p \in Procs :
              /\ Succeeded(req[p])
              /\ file = <<req[p].cacheKey, req[p].generatedResponse[1]>>

C11_OnlyCompletedClipsAreCached ==
    [](OnlyCompletedClipsCached) /\ [][OnlySuccessWrites]_vars

\* a request that failed at its first candidate and succeeded at a later one
\* has its clip in both layers, and the failure left nothing there
C11_Witness ==
    \E p \in Procs :
        /\ req[p].pc = "done"
        /\ Succeeded(req[p])
        /\ req[p].lastError.kind = "frames"
        /\ req[p].last.candidate > 1
        /\ <<req[p].cacheKey, req[p].generatedResponse[1]>> \in Entries(adClipCache)
        /\ <<req[p].cacheKey, req[p].generatedResponse[1]>> \in Files(disk)
        /\ Cardinality(Entries(adClipCache)) = 1

----------------------------------------------------------------------------
(* C12: in every state reached by POST requests (generation writes and      *)
(* hydrations from the durable store) and DELETE calls, the in-memory cache *)
(* holds at most MAX_CACHE_ENTRIES entries, one per key.                    *)
Keys(cache) == {cache[i][1] : i \in DOMAIN cache}

C12_CacheSizeBounded ==
    /\ Len(adClipCache) <= env.MAX_CACHE_ENTRIES
    /\ Cardinality(Keys(adClipCache)) = Len(adClipCache)

\* a generation wrote a new key into the full cache of the earlier requests:
\* the cache is full again, the older of the earlier clips is gone
C12_Witness ==
    \E p \in Procs :
        /\ Succeeded(req[p])
        /\ req[p].pc = "done"
        /\ Len(adClipCache) = env.MAX_CACHE_ENTRIES
        /\ Len(WarmCache) = env.MAX_CACHE_ENTRIES
        /\ req[p].cacheKey \notin Keys(WarmCache)
        /\ req[p].cacheKey \in Keys(adClipCache)
        /\ WarmCache[1][1] \notin Keys(adClipCache)
        /\ WarmCache[2][1] \in Keys(adClipCache)

----------------------------------------------------------------------------
(* C13: a step that is not a DELETE and after which a key of the in-memory  *)
(* cache is gone was a write that exceeded the capacity, and the key gone   *)
(* is the earliest inserted of those present: the other entries stay, in    *)
(* their order, and the key written is the latest; a request answered from  *)
(* the in-memory cache leaves the cache and its order as they were.         *)
Evicted == Keys(adClipCache) \ Keys(adClipCache')

IsDeleteStep == deletesLeft' # deletesLeft

AnsweredFromMemory(p) ==
    /\ pending' # pending
    /\ HasResponse(req'[p])
    /\ req'[p].response[1].cacheHit

FifoEviction ==
    /\ (Evicted # {} /\ ~IsDeleteStep) =>
          /\ Len(adClipCache) = env.MAX_CACHE_ENTRIES
          /\ Evicted = {adClipCache[1][1]}
          /\ Len(adClipCache') = Len(adClipCache)
          /\ SubSeq(adClipCache', 1, Len(adClipCache') - 1) = Tail(adClipCache)
    /\ \A p \in Procs : AnsweredFromMemory(p) => adClipCache' = adClipCache

C13_EvictsEarliestInserted == [][FifoEviction]_vars

\* the older of the two cached clips was served from memory, then a clip for
\* a new key was written: the older one was evicted all the same
C13_Witness ==
    /\ Len(log) = 2
    /\ deletesLeft = 1
    /\ log[1].kind = "POST" /\ log[1].cacheHit
    /\ CacheKeyOf(log[1].body) = WarmCache[1][1]
    /\ log[2].kind = "POST" /\ log[2].status = 200 /\ ~log[2].cacheHit
    /\ Len(adClipCache) = 2
    /\ adClipCache[1][1] = WarmCache[2][1]
    /\ adClipCache[2][1] = CacheKeyOf(log[2].body)
    /\ CacheKeyOf(log[2].body) \notin Keys(WarmCache)

----------------------------------------------------------------------------
(* C14: the cache is looked up once, before any frame extraction or         *)
(* generation: the durable store is read only after the in-memory cache     *)
(* missed, and what is read is the file stored under the key; a durable hit *)
(* is copied into the in-memory cache under the same key; a hit in either   *)
(* layer returns the stored clip with no frame extraction and no generation *)
(* call; once the search has begun no lookup follows.                       *)
LookingUp(r) == r.pc \in {"readDisk", "diskRead"}
Searching(r) == r.pc \in {"frames", "attempt", "persist", "writeFile"}
IsHit(r) == HasResponse(r) /\ r.response[1].cacheHit

LookupBeforeSearch ==
    \A p \in Procs :
        /\ (LookingUp(req[p]) \/ IsHit(req[p])) =>
              /\ req[p].step = 0
              /\ req[p].last = NoEvent
              /\ req[p].frames = <<>>
              /\ req[p].generatedResponse = <<>>
              /\ ~req[p].bypassCache
        /\ IsHit(req[p]) => StatusOf(req[p]) = 200 /\ req[p].response[1].clip # <<>>

LookupSteps ==
    \A p \in Procs :
        \* the durable read is issued on an in-memory miss only
        /\ (~LookingUp(req[p]) /\ req'[p].pc = "readDisk") =>
              ~MapHas(adClipCache, req'[p].cacheKey)
        \* it reads the file stored under the key
        /\ (req[p].pc = "readDisk" /\ req'[p].pc = "diskRead") =>
              req'[p].diskHit =
                  IF env.CACHE_PERSIST_ENABLED /\ req[p].cacheKey \in DOMAIN disk.files
                  THEN <<disk.files[req[p].cacheKey]>>
                  ELSE <<>>
        \* an in-memory hit returns the entry
        /\ AnsweredFromMemory(p) =>
              /\ MapHas(adClipCache, req'[p].cacheKey)
              /\ req'[p].response[1].clip = <<MapGet(adClipCache, req'[p].cacheKey)>>
              /\ nextOp' = nextOp
        \* a durable hit returns the file read and copies it into memory
        /\ (req[p].pc = "diskRead" /\ IsHit(req'[p])) =>
              /\ req'[p].response[1].clip = req[p].diskHit
              /\ MapHas(adClipCache', req[p].cacheKey)
              /\ <<MapGet(adClipCache', req[p].cacheKey)>> = req[p].diskHit
              /\ nextOp' = nextOp
        \* a durable miss begins the search, a durable hit never does
        /\ (req[p].pc = "diskRead" /\ req[p].diskHit # <<>> /\ req'[p].pc # "diskRead") =>
              IsHit(req'[p])
        \* no lookup once the search has begun
        /\ Searching(req[p]) => ~LookingUp(req'[p]) /\ ~IsHit(req'[p])

C14_LookupOnceMemoryThenDurable == [](LookupBeforeSearch) /\ [][LookupSteps]_vars

\* a clip evicted from memory is found in the durable store and copied back
C14_Witness ==
    \E p \in Procs :
        /\ IsHit(req[p])
        /\ req[p].diskHit # <<>>
        /\ req[p].cacheKey = WarmCache[1][1]
        /\ adClipCache[Len(adClipCache)] = <<req[p].cacheKey, req[p].diskHit[1]>>
        /\ Len(adClipCache) = env.MAX_CACHE_ENTRIES
        /\ deletesLeft = 1

----------------------------------------------------------------------------
(* C15, as claimed: when the generation of a request that does not bypass   *)
(* the cache succeeds (and no DELETE ran meanwhile), the response carries   *)
(* cacheHit=false and the clip is then held under the request's key by the  *)
(* in-memory cache and by the durable store.                                *)
GenerationAnswered(p) ==
    /\ ~HasResponse(req[p])
    /\ Generated(req'[p])
    /\ ~req'[p].bypassCache

HeldInMemory(cache, r) ==
    MapHas(cache, r.cacheKey) /\ <<MapGet(cache, r.cacheKey)>> = r.generatedResponse

HeldOnDisk(store, r) ==
    r.cacheKey \in DOMAIN store.files /\ <<store.files[r.cacheKey]>> = r.generatedResponse

C15_AsClaimed_WrittenToBothLayers ==
    [][\A p \in Procs :
          (GenerationAnswered(p) /\ ~req'[p].delDuring) =>
              /\ req'[p].response[1].clip = req'[p].generatedResponse
              /\ HeldInMemory(adClipCache', req'[p])
              /\ HeldOnDisk(disk', req'[p])]_vars

(* C15, amended: when the generation of a request that does not bypass the  *)
(* cache succeeds, the clip is written under the request's key to the       *)
(* in-memory cache and, when persistence is enabled and the durable write   *)
(* does not fail, to the durable store (otherwise the durable store is left *)
(* as it was), and the response carries cacheHit=false; a response served   *)
(* from the cache carries cacheHit=true.                                    *)
GenerationWrites ==
    \A p \in Procs :
        \* the attempt returns: the in-memory write
        /\ (req[p].pc = "attempt" /\ Succeeded(req'[p]) /\ ~req'[p].bypassCache) =>
              /\ HeldInMemory(adClipCache', req'[p])
              /\ disk' = disk
        \* the durable write and the response
        /\ GenerationAnswered(p) =>
              /\ req'[p].response[1].clip = req'[p].generatedResponse
              /\ ~req'[p].delDuring => HeldInMemory(adClipCache', req'[p])
              /\ adClipCache' = adClipCache
              /\ \/ disk'.files = disk.files
                 \/ /\ env.CACHE_PERSIST_ENABLED
                    /\ HeldOnDisk(disk', req'[p])
                    /\ \A k \in DOMAIN disk.files :
                          k # req[p].cacheKey =>
                              k \in DOMAIN disk'.files /\ disk'.files[k] = disk.files[k]

HitFlagTellsTheSource ==
    \A p \in Procs :
        (HasResponse(req[p]) /\ StatusOf(req[p]) = 200) =>
            (req[p].response[1].cacheHit <=> req[p].generatedResponse = <<>>)

C15_WrittenToMemoryAndDurableIfEnabled ==
    [](HitFlagTellsTheSource) /\ [][GenerationWrites]_vars

\* a clip was generated and written to both layers, and the next request
\* for its key was served from the cache
C15_Witness ==
    /\ Len(log) = 2
    /\ deletesLeft = 1
    /\ log[1].kind = "POST" /\ log[1].status = 200 /\ ~log[1].cacheHit
    /\ log[2].kind = "POST" /\ log[2].cacheHit
    /\ log[2].clip = log[1].clip
    /\ CacheKeyOf(log[1].body) \in DOMAIN disk.files
    /\ <<disk.files[CacheKeyOf(log[1].body)]>> = log[1].clip
    /\ <<MapGet(adClipCache, CacheKeyOf(log[1].body))>> = log[1].clip

----------------------------------------------------------------------------
(* C16: when the durable write of a generated clip fails (persistence is    *)
(* enabled and the step that ends the write leaves no file for the clip),   *)
(* the request still returns the clip with status 200 and the failure does  *)
(* not touch the in-memory cache: while no DELETE has run the cache holds   *)
(* the clip, and the next request for the same key is served from it.       *)
DurableWriteEnds(p) ==
    /\ req[p].pc \in {"persist", "writeFile"}
    /\ req'[p].pc \notin {"persist", "writeFile"}

DurableWriteFailed(store, r) == env.CACHE_PERSIST_ENABLED /\ ~HeldOnDisk(store, r)

FailedWriteStillAnswers ==
    \A p \in Procs :
        (DurableWriteEnds(p) /\ DurableWriteFailed(disk', req[p])) =>
            /\ Generated(req'[p])
            /\ req'[p].response[1].clip = req[p].generatedResponse
            /\ adClipCache' = adClipCache

FailedWriteKeepsMemory ==
    /\ \A p \in Procs :
          (/\ Generated(req[p]) /\ ~req[p].bypassCache
           /\ DurableWriteFailed(disk, req[p])
           /\ deletesLeft = 1) => HeldInMemory(adClipCache, req[p])
    /\ \A i, j \in DOMAIN log :
          (/\ SameKeyPair(i, j) /\ Undisturbed(i, j)
           /\ deletesLeft = 1
           /\ log[i].status = 200 /\ ~log[i].cacheHit
           /\ ~Bypasses(log[i].body)
           /\ env.CACHE_PERSIST_ENABLED
           /\ CacheKeyOf(log[i].body) \notin DOMAIN disk.files) => SecondIsHitOfFirst(i, j)

C16_DurableFailureDoesNotFailRequest ==
    [](FailedWriteKeepsMemory) /\ [][FailedWriteStillAnswers]_vars

\* the durable write of a generated clip failed, the clip was returned, and
\* the next request for the key was served from memory
C16_Witness ==
    /\ Len(log) = 2
    /\ deletesLeft = 1
    /\ env.CACHE_PERSIST_ENABLED
    /\ SameKeyPair(1, 2)
    /\ log[1].status = 200 /\ ~log[1].cacheHit
    /\ CacheKeyOf(log[1].body) \notin DOMAIN disk.files
    /\ SecondIsHitOfFirst(1, 2)

----------------------------------------------------------------------------
(* C17, as claimed: a DELETE interleaved with a POST in flight never makes  *)
(* the POST fail: a generation that completed is answered with its clip,    *)
(* and its cache write after the DELETE succeeds against the emptied store: *)
(* whenever the request is about to write its file, the write can succeed.  *)
AnsweredWithItsClip(r) ==
    (Succeeded(r) /\ HasResponse(r)) =>
        /\ Generated(r)
        /\ r.response[1].clip = r.generatedResponse

FileWriteCanSucceed(p) ==
    req[p].pc = "writeFile" => ENABLED (PostPersist(p) /\ HeldOnDisk(disk', req[p]))

C17_AsClaimed_WriteSucceedsAfterDelete ==
    \A p \in Procs : AnsweredWithItsClip(req[p]) /\ FileWriteCanSucceed(p)

(* C17, amended: a DELETE interleaved with a POST in flight never makes the *)
(* POST fail: the request goes on, a generation that completed is answered  *)
(* with its clip, and its in-memory cache write succeeds against the        *)
(* emptied cache; its durable write can succeed while the cache directory   *)
(* exists, and when the DELETE removed the directory between the request's  *)
(* mkdir and its file write, the write fails, the error is swallowed, the   *)
(* durable store stays empty and the clip is returned all the same.         *)
DeleteLeavesPostRunning ==
    \A p \in Procs :
        /\ AnsweredWithItsClip(req[p])
        /\ InFlight(req[p]) => ENABLED Post(p)
        /\ (req[p].pc = "writeFile" /\ disk.dir) =>
              ENABLED (PostPersist(p) /\ HeldOnDisk(disk', req[p]))

WritesAfterDelete ==
    \A p \in Procs :
        /\ (req[p].pc = "attempt" /\ Succeeded(req'[p]) /\ ~req'[p].bypassCache) =>
              HeldInMemory(adClipCache', req'[p])
        /\ (req[p].pc = "writeFile" /\ ~disk.dir /\ req'[p].pc # "writeFile") =>
              /\ disk' = disk
              /\ Generated(req'[p])
              /\ req'[p].response[1].clip = req[p].generatedResponse

C17_DeleteNeverFailsPost == [](DeleteLeavesPostRunning) /\ [][WritesAfterDelete]_vars

\* the DELETE cleared the memory before the clip was written to it and
\* removed the directory after the request had made it: the clip is in
\* memory alone and was returned
C17_Witness ==
    \E p \in Procs :
        /\ Generated(req[p])
        /\ req[p].delDuring
        /\ env.CACHE_PERSIST_ENABLED
        /\ del.pc = "idle" /\ deletesLeft = 0
        /\ ~disk.dir
        /\ adClipCache = <<<<req[p].cacheKey, req[p].generatedResponse[1]>>>>

----------------------------------------------------------------------------
(* C18, as claimed: DELETE empties the in-memory cache and the count it     *)
(* reports is the number of cached entries it clears in both layers, an     *)
(* entry held by the durable store alone included.                          *)
CachedKeys == Keys(adClipCache) \cup DOMAIN disk.files

DeleteEnds == del.pc = "rm" /\ del'.pc = "idle"

DeleteSteps ==
    /\ IsDeleteStep =>
          /\ adClipCache' = <<>>
          /\ del'.cleared = Cardinality(Keys(adClipCache))
          /\ disk' = disk
          /\ del'.pc = "rm" <=> env.CACHE_PERSIST_ENABLED
    /\ DeleteEnds =>
          /\ env.CACHE_PERSIST_ENABLED
          /\ del'.cleared = del.cleared
          /\ adClipCache' = adClipCache
          /\ \/ DOMAIN disk'.files = {} /\ ~disk'.dir
             \/ disk' = disk

----------------------------------------------------------------------------
(* C19: a POST whose payload is no JSON, whose product descriptor is        *)
(* invalid, or whose videoId is empty once sanitised is answered 400 in the *)
(* step it arrives: no cache lookup, no generation client, no frame         *)
(* extraction and no generation call is made for it, and both cache layers  *)
(* are left as they were.                                                   *)
InvalidRequest(body) ==
    \/ ~body.json
    \/ body.product = <<>>
    \/ ~body.product[1].complete
    \/ body.product[1].id = <<>>
    \/ \A i \in DOMAIN body.videoId : body.videoId[i] \notin IdChars

RejectedUntouched(r) ==
    /\ r.pc = "done"
    /\ StatusOf(r) = 400
    /\ r.response[1].clip = <<>>
    /\ r.step = 0
    /\ r.last = NoEvent
    /\ r.cacheKey = <<>>
    /\ r.diskHit = <<>>
    /\ r.models = <<>>
    /\ r.timestampCandidates = <<>>
    /\ r.frames = <<>>
    /\ r.generatedResponse = <<>>

InvalidIsRejected ==
    \A p \in Procs :
        (req[p].pc # "idle" /\ InvalidRequest(req[p].body)) => RejectedUntouched(req[p])

InvalidArrives ==
    \A p \in Procs :
        (pending # <<>> /\ pending' # pending /\ InvalidRequest(Head(pending))) =>
            /\ RejectedUntouched(req'[p])
            /\ adClipCache' = adClipCache
            /\ disk' = disk
            /\ nextOp' = nextOp

----------------------------------------------------------------------------
(* C20, as claimed: a request ends with a BlockedInputImage or              *)
(* MissingGeneratedSample failure as its error only when no combination of  *)
(* timestamp candidate, model and safety profile is left: the failed        *)
(* attempt is that of the last profile of the last model at the last        *)
(* candidate.                                                               *)
SurfacedPolicy(r) == HasResponse(r) /\ AttemptFailedWith(r, PolicyClasses)

LastProfile(r) == r.last.profile = Len(r.safetyProfiles)
LastModel(r) == r.last.model = Len(r.models)
LastCandidate(r) == r.last.candidate = Len(r.timestampCandidates)

C20_AsClaimed_SurfacedAfterEveryCombination ==
    \A p \in Procs :
        SurfacedPolicy(req[p]) =>
            LastProfile(req[p]) /\ LastModel(req[p]) /\ LastCandidate(req[p])

(* C20, amended: a request ends with a BlockedInputImage or                 *)
(* MissingGeneratedSample failure as its error only when the failed attempt *)
(* is that of the last safety profile at the last timestamp candidate (the  *)
(* models after the failing one are not tried); while a profile for the     *)
(* model or a later candidate is left, the failure is recovered locally:    *)
(* the request stays in flight and has a next step.                         *)
C20_SurfacedAfterProfilesAndCandidates ==
    \A p \in Procs :
        /\ SurfacedPolicy(req[p]) =>
              /\ LastProfile(req[p]) /\ LastCandidate(req[p])
              /\ StatusOf(req[p]) = 500
              /\ req[p].response[1].error.kind = "attempt"
              /\ req[p].response[1].error.at = req[p].last.at
        /\ (AttemptFailedWith(req[p], PolicyClasses)
            /\ ~(LastProfile(req[p]) /\ LastCandidate(req[p]))) =>
              /\ InFlight(req[p])
              /\ req[p].pc \in {"frames", "attempt"}
              /\ ENABLED Post(p)

\* the first model was blocked on its last profile at the last candidate:
\* the request ended with that error and the second model untried there
C20_Witness ==
    \E p \in Procs :
        /\ SurfacedPolicy(req[p])
        /\ ErrorClass(req[p].last.error[1]) = "BlockedInputImage"
        /\ req[p].last.model = 1
        /\ Len(req[p].models) = 2
        /\ Len(req[p].safetyProfiles) = 2
        /\ req[p].last.candidate = 3

----------------------------------------------------------------------------
(* One POST followed await by await through the frame fan-out of a          *)
(* candidate and through a generation attempt, route.ts:846-1031.  `call`   *)
(* holds the step in progress: the branches of a Promise.all, each          *)
(* "pending", "ok" or "failed", and the position inside the attempt.        *)
(*                                                                          *)
(* POST computes its duration plan from AD_INSERT_DURATION_SECONDS, which   *)
(* equals VEO_MAX_IMAGE_TO_VIDEO_SECONDS, so the requests it serves are     *)
(* single-pass and unpadded.  The split and the hold extension of lines     *)
(* 889-958 and 1001-1006 are followed here as functions of the target       *)
(* duration: SpecAttempt lets the target range over 1 .. MaxTargetSeconds.  *)

MaxTargetSeconds == 17

\* a rounding that always asks for the shortest supported segment
pickSupportedSegmentDuration_AlwaysShortest(requiredSeconds) == 4

\* route.ts:62-66
pickSupportedSegmentDuration(requiredSeconds) ==
    IF requiredSeconds <= 4 THEN 4
    ELSE IF requiredSeconds <= 6 THEN 6
    ELSE 8

\* route.ts:476-481: ffmpeg keeps at most `-t secondKeepSeconds` of the second
\* segment and concatenates; durations in seconds
stitchedDuration(first, second, keepSeconds) == first + Min(keepSeconds, second)

\* route.ts:514-547: tpad/apad add holdSeconds, nothing is added when it is not positive
extendedDuration(clip, holdSeconds) == IF holdSeconds <= 0 THEN clip ELSE clip + holdSeconds

\* route.ts:892, 904, 925, 982: the durationSeconds submitted, one per generateVideos call
requestedDurations(e) ==
    IF requiresSplit(e)
    THEN <<generatedDurationSeconds(e), pickSupportedSegmentDuration(secondKeepSeconds(e))>>
    ELSE <<generatedDurationSeconds(e)>>

\* Promise.all: the branches, all of them started at once
Started(n) == [i \in 1 .. n |-> "pending"]

\* a join that resolves with the first branch that succeeds
AllOk_FirstOk(branches) == \E i \in DOMAIN branches : branches[i] = "ok"

\* Promise.all resolves when every branch has
AllOk(branches) == \A i \in DOMAIN branches : branches[i] = "ok"
Settle(branches, i, ok) == [branches EXCEPT ![i] = IF ok THEN "ok" ELSE "failed"]

\* route.ts:945, 949, 998: the errors thrown for a missing sample
MissingFirstSegment == RawError("plain", 0, "", {"did not return first split segment"})
MissingSecondSegment == RawError("plain", 0, "", {"did not return second split segment"})
MissingSample == RawError("plain", 0, "", {"returned no video sample"})

\* route.ts:300, 319, 342, 347: what stitchToTargetDuration and extendVideoWithHold
\* throw: the text of a tool's stderr, of a timeout or of a file-system error
PostProcessingErrors == {RawError("plain", 0, "", {})}

\* route.ts:943-950, 996-999: the first missing sample, in the order tested
MissingSampleError(split, samples) ==
    IF split
    THEN IF ~samples[1] THEN <<MissingFirstSegment>>
         ELSE IF ~samples[2] THEN <<MissingSecondSegment>>
         ELSE <<>>
    ELSE IF ~samples[1] THEN <<MissingSample>> ELSE <<>>

AttemptRunning ==
    /\ call.fn = "attempt"
    /\ call.pc \notin {"returned", "threw"}

FramesRunning ==
    /\ call.fn = "frames"
    /\ call.pc = "fetching"

\* history of the request: the (candidate, model, profile) of the attempts that
\* stitchToTargetDuration or extendVideoWithHold made fail
PostFailures(c) == IF c.fn = "none" THEN {} ELSE c.postFailures

\* route.ts:850-862: the extractions of a candidate are started together
FetchFrames(p) ==
    /\ req[p].pc = "frames"
    /\ ~FramesRunning
    /\ call' = [fn |-> "frames", pc |-> "fetching",
                candidate |-> req[p].candidateIndex,
                branches |-> Started(Len(FrameTimes(req[p], env))),
                postFailures |-> PostFailures(call)]
    /\ UNCHANGED <<env, faults, pending, deletesLeft, adClipCache, disk, req, del, nextOp, log>>

\* route.ts:852-866: one extraction settles; Promise.all rejects with the first
\* rejection and resolves with the last success
FrameSettles(p) ==
    /\ req[p].pc = "frames"
    /\ FramesRunning
    /\ \E i \in DOMAIN call.branches, ok \in BOOLEAN :
          /\ call.branches[i] = "pending"
          /\ LET branches == Settle(call.branches, i, ok)
             IN  IF ~ok
                 THEN /\ call' = [call EXCEPT !.pc = "rejected", !.branches = branches]
                      /\ Commit(p, FramesFailed(req[p]))
                 ELSE IF AllOk(branches)
                 THEN /\ call' = [call EXCEPT !.pc = "resolved", !.branches = branches]
                      /\ Commit(p, FramesExtracted(req[p], env))
                 ELSE /\ call' = [call EXCEPT !.branches = branches]
                      /\ UNCHANGED <<req, log>>
    /\ UNCHANGED <<env, faults, pending, deletesLeft, adClipCache, disk, del, nextOp>>

\* route.ts:886-937, 973-993: generateVideos is called, twice at once when split
AttemptSubmit(p) ==
    /\ req[p].pc = "attempt"
    /\ ~AttemptRunning
    /\ call' = [fn |-> "attempt", pc |-> "submit",
                candidate |-> req[p].candidateIndex,
                model |-> req[p].modelIndex,
                profile |-> req[p].profileIndex,
                split |-> requiresSplit(env),
                requested |-> requestedDurations(env),
                submits |-> Started(Len(requestedDurations(env))),
                polls |-> <<>>, samples |-> <<>>, resolved |-> 0,
                processed |-> FALSE, duration |-> 0, error |-> <<>>,
                postFailures |-> PostFailures(call)]
    /\ UNCHANGED <<env, faults, pending, deletesLeft, adClipCache, disk, req, del, nextOp, log>>

\* route.ts:1032-1072: an await of the attempt rejected, the catch block runs
AttemptThrows(p, error) ==
    /\ call' = [call EXCEPT
            !.error = <<[at |-> call.pc, raw |-> error]>>,
            !.pc = "threw",
            !.postFailures = IF call.pc \in {"stitch", "extend"}
                             THEN @ \cup {<<call.candidate, call.model, call.profile>>}
                             ELSE @]
    /\ Commit(p, CatchAttempt(Observe(req[p], "attempt", FALSE, <<error>>), error))

\* route.ts:894-942, 973-995: a submission settles; when all have, polling starts
SubmitSettles(p) ==
    /\ AttemptRunning
    /\ call.pc = "submit"
    /\ \E i \in DOMAIN call.submits, ok \in BOOLEAN :
          /\ call.submits[i] = "pending"
          /\ LET submits == Settle(call.submits, i, ok)
             IN  IF ~ok
                 THEN \E error \in faults :
                         AttemptThrows(p, error)
                 ELSE /\ call' = IF AllOk(submits)
                                 THEN [call EXCEPT !.submits = submits, !.pc = "poll",
                                                   !.polls = Started(Len(submits)),
                                                   !.samples = [k \in DOMAIN submits |-> FALSE]]
                                 ELSE [call EXCEPT !.submits = submits]
                      /\ UNCHANGED <<req, log>>
    /\ UNCHANGED <<env, faults, pending, deletesLeft, adClipCache, disk, del, nextOp>>

\* route.ts:939-950, 995-999: a pollUntilDone settles; when all have, the
\* samples are looked for
PollSettles(p) ==
    /\ AttemptRunning
    /\ call.pc = "poll"
    /\ \E i \in DOMAIN call.polls, ok \in BOOLEAN, sample \in BOOLEAN :
          /\ call.polls[i] = "pending"
          /\ ~ok => ~sample
          /\ LET polls == Settle(call.polls, i, ok)
                 samples == [call.samples EXCEPT ![i] = sample]
                 joined == [call EXCEPT !.polls = polls, !.samples = samples]
             IN  IF ~ok
                 THEN \E error \in faults :
                         AttemptThrows(p, error)
                 ELSE IF ~AllOk(polls)
                 THEN /\ call' = joined
                      /\ UNCHANGED <<req, log>>
                 ELSE IF MissingSampleError(call.split, samples) # <<>>
                 THEN /\ call' = [joined EXCEPT !.error = <<[at |-> "sample", raw |-> MissingSampleError(call.split, samples)[1]]>>,
                                                !.pc = "threw"]
                      /\ Commit(p, CatchAttempt(Observe(req[p], "attempt", FALSE,
                                                        MissingSampleError(call.split, samples)),
                                                MissingSampleError(call.split, samples)[1]))
                 ELSE /\ call' = [joined EXCEPT !.pc = "resolve"]
                      /\ UNCHANGED <<req, log>>
    /\ UNCHANGED <<env, faults, pending, deletesLeft, adClipCache, disk, del, nextOp>>

\* route.ts:952-953, 1000-1001: videoToBase64 of the next sample settles
VideoResolves(p) ==
    /\ AttemptRunning
    /\ call.pc = "resolve"
    /\ \E ok \in BOOLEAN :
          IF ~ok
          THEN \E error \in faults : AttemptThrows(p, error)
          ELSE /\ call' = [call EXCEPT
                     !.resolved = @ + 1,
                     !.pc = IF call.resolved + 1 < Len(call.requested) THEN "resolve"
                            ELSE IF call.split THEN "stitch"
                            ELSE IF holdExtensionSeconds(env) > 0 THEN "extend"
                            ELSE "assemble",
                     !.duration = IF call.split THEN 0 ELSE call.requested[1]]
               /\ UNCHANGED <<req, log>>
    /\ UNCHANGED <<env, faults, pending, deletesLeft, adClipCache, disk, del, nextOp>>

\* route.ts:954-958, 1001-1006: stitchToTargetDuration or extendVideoWithHold settles
PostProcessSettles(p) ==
    /\ AttemptRunning
    /\ call.pc \in {"stitch", "extend"}
    /\ \E ok \in BOOLEAN :
          IF ~ok
          THEN \E error \in PostProcessingErrors : AttemptThrows(p, error)
          ELSE /\ call' = [call EXCEPT
                     !.pc = "assemble",
                     !.processed = TRUE,
                     !.duration = IF call.split
                                  THEN stitchedDuration(call.requested[1], call.requested[2],
                                                        secondKeepSeconds(env))
                                  ELSE extendedDuration(call.requested[1], holdExtensionSeconds(env))]
               /\ UNCHANGED <<req, log>>
    /\ UNCHANGED <<env, faults, pending, deletesLeft, adClipCache, disk, del, nextOp>>

\* route.ts:960-971, 1007-1031: the clip is assembled, cached unless bypassed,
\* and handed to the durable write or returned
AttemptAssembles(p) ==
    /\ AttemptRunning
    /\ call.pc = "assemble"
    /\ call' = [call EXCEPT !.pc = "returned"]
    /\ LET seen == Observe(req[p], "attempt", TRUE, <<>>)
           clip == GeneratedResponse(seen, nextOp)
       IN  IF req[p].bypassCache
           THEN /\ adClipCache' = adClipCache
                /\ Commit(p, Respond([seen EXCEPT !.generatedResponse = <<clip>>],
                                     Response(200, FALSE, <<clip>>, NoError)))
           ELSE /\ adClipCache' = writeCache(adClipCache, seen.cacheKey, clip, env)
                /\ Commit(p, [seen EXCEPT !.pc = "persist", !.generatedResponse = <<clip>>])
    /\ nextOp' = nextOp + 1
    /\ UNCHANGED <<env, faults, pending, deletesLeft, disk, del>>


\* the configurations of SpecAttempt: both values of VEO_FORCE_SINGLE_PASS,
\* two safety profiles, two models, every target up to MaxTargetSeconds
AttemptEnvs ==
    { [Env(TRUE, MaxCacheItems, "ALLOW_ADULT", TRUE, SubSeq(ModelNames, 1, 2), FALSE, TRUE)
          EXCEPT !.AD_INSERT_DURATION_SECONDS = d, !.VEO_FORCE_SINGLE_PASS = force] :
        d \in 1 .. MaxTargetSeconds, force \in BOOLEAN }

\* the last body asks for a duration of its own (route.ts:27)
AttemptBodies ==
    { Body(<<"v">>, <<0>>, Product(<<"p">>), "a", b) : b \in BOOLEAN } \cup
    { [Body(<<"v">>, <<0>>, Product(<<"p">>), "a", FALSE) EXCEPT !.durationSeconds = <<MaxTargetSeconds>>] }

\* an error of no class, a blocked input image, a denied permission
AttemptFaults ==
    { RawError("plain", 0, "", {}),
      RawError("plain", 0, "", {"face generation"}),
      RawError("json", 403, "PERMISSION_DENIED", {}) }

\* one request against empty caches
InitAttempt ==
    /\ Quiet
    /\ call = NoCall
    /\ env \in AttemptEnvs
    /\ faults = AttemptFaults
    /\ pending \in { <<b>> : b \in AttemptBodies }
    /\ deletesLeft = 0
    /\ adClipCache = <<>>
    /\ disk = EmptyStore

NextAttempt ==
    \E p \in Procs :
        \/ PostCacheMiss(p)
        \/ PostBypass(p)
        \/ PostReadDisk(p)
        \/ PostDiskMiss(p)
        \/ FetchFrames(p)
        \/ FrameSettles(p)
        \/ AttemptSubmit(p)
        \/ SubmitSettles(p)
        \/ PollSettles(p)
        \/ VideoResolves(p)
        \/ PostProcessSettles(p)
        \/ AttemptAssembles(p)
        \/ PostMkdir(p)
        \/ PostPersist(p)

\* one POST, its joins and attempts step by step
SpecAttempt == InitAttempt /\ [][NextAttempt]_vars

----------------------------------------------------------------------------
(* C21: when stitchToTargetDuration or extendVideoWithHold fails inside a   *)
(* generation attempt, the attempt is recorded as failed, neither cache     *)
(* layer is written, and the request goes on with the next model at its     *)
(* first safety profile for the same timestamp candidate and the same       *)
(* frames, or ends with status 500 when that was the last model; no later   *)
(* attempt is made with the (candidate, model, profile) that failed.        *)
PostProcessingFails ==
    /\ call.fn = "attempt"
    /\ call.pc \in {"stitch", "extend"}
    /\ call'.pc = "threw"

PostProcessingFailureStep ==
    \A p \in Procs :
        PostProcessingFails =>
            /\ req'[p].last.kind = "attempt"
            /\ ~req'[p].last.ok
            /\ <<req'[p].last.candidate, req'[p].last.model, req'[p].last.profile>>
                  = <<call.candidate, call.model, call.profile>>
            /\ req'[p].lastError.kind = "attempt"
            /\ req'[p].lastError.at = req'[p].last.at
            /\ adClipCache' = adClipCache
            /\ disk' = disk
            /\ IF req[p].modelIndex < Len(req[p].models)
               THEN /\ req'[p].pc = "attempt"
                    /\ req'[p].candidateIndex = req[p].candidateIndex
                    /\ req'[p].frames = req[p].frames
                    /\ req'[p].modelIndex = req[p].modelIndex + 1
                    /\ req'[p].profileIndex = 1
               ELSE /\ HasResponse(req'[p])
                    /\ StatusOf(req'[p]) = 500

NotRetriedAfterPostProcessing ==
    AttemptRunning => <<call.candidate, call.model, call.profile>> \notin call.postFailures

C21_PostProcessingFailureMovesToNextModel ==
    /\ [](NotRetriedAfterPostProcessing)
    /\ [][PostProcessingFailureStep]_vars

\* a stitch failed under the first model and the second model is being tried
C21_Witness ==
    /\ AttemptRunning
    /\ call.split
    /\ call.model = 2
    /\ call.postFailures = {<<call.candidate, 1, call.profile>>}

----------------------------------------------------------------------------
(* The helpers of the route that wait on the outside world, each followed   *)
(* from its call to its return or throw.  `call.awaiting` names the         *)
(* external call the helper is suspended on, "none" once it has settled.    *)

\* route.ts:645-649: the thumbnail variants, best first
ThumbnailCandidates == <<"maxresdefault", "sddefault", "hqdefault">>

\* route.ts:592-640: how the extraction subprocess can end without the timer:
\* a frame on stdout, a spawn error, a non-zero exit, stdout that is not
\* JSON, an error field, or mimeType/imageBytes that are not strings
PythonOutcomes == {"frame", "spawnError", "exit", "badJson", "errorField", "malformed"}

\* route.ts:653-664: how a thumbnail fetch can end: a non-empty body, a
\* response that is not OK, an empty body, or a rejected fetch
FetchOutcomes == {"image", "notOk", "empty", "throws"}

\* route.ts:670-672, 575-595: extractFrameFromYouTube spawns the extraction
\* script and arms its timer
extractFrameFromYouTube(videoId, timestampSeconds) ==
    [fn |-> "extractFrameFromYouTube", videoId |-> videoId,
     timestampSeconds |-> Max(0, timestampSeconds),
     pc |-> "python", awaiting |-> "python", primary |-> "running",
     fetched |-> <<>>, result |-> <<>>]

\* route.ts:651-667: the next variant is fetched, or none is left and the helper throws
NextThumbnail(c) ==
    IF Len(c.fetched) < Len(ThumbnailCandidates)
    THEN [c EXCEPT !.pc = "thumbnail", !.awaiting = "fetch"]
    ELSE [c EXCEPT !.pc = "threw", !.awaiting = "none"]

\* route.ts:597-640, 673-678: the subprocess ended, or its timer fired (outcome "timeout")
PythonSettled(c, outcome) ==
    IF outcome = "frame"
    THEN [c EXCEPT !.pc = "returned", !.awaiting = "none", !.primary = outcome,
                   !.result = <<"python">>]
    ELSE NextThumbnail([c EXCEPT !.primary = outcome])

\* a fallback that accepts an empty body
ThumbnailSettled_AcceptsEmpty(c, outcome) ==
    LET variant == ThumbnailCandidates[Len(c.fetched) + 1]
        seen == [c EXCEPT !.fetched = Append(@, [variant |-> variant, outcome |-> outcome])]
    IN  IF outcome \in {"image", "empty"}
        THEN [seen EXCEPT !.pc = "returned", !.awaiting = "none", !.result = <<variant>>]
        ELSE NextThumbnail(seen)

\* route.ts:651-665: the fetch of the current variant ended
ThumbnailSettled(c, outcome) ==
    LET variant == ThumbnailCandidates[Len(c.fetched) + 1]
        seen == [c EXCEPT !.fetched = Append(@, [variant |-> variant, outcome |-> outcome])]
    IN  IF outcome = "image"
        THEN [seen EXCEPT !.pc = "returned", !.awaiting = "none", !.result = <<variant>>]
        ELSE NextThumbnail(seen)

HelperStep(c) ==
    /\ call' = c
    /\ UNCHANGED <<env, faults, pending, deletesLeft, adClipCache, disk, req, del, nextOp, log>>

\* route.ts:597-640: the 'error' or 'close' event of the extraction subprocess
PythonSettles ==
    /\ call.fn = "extractFrameFromYouTube"
    /\ call.pc = "python"
    /\ \E outcome \in PythonOutcomes : HelperStep(PythonSettled(call, outcome))

\* route.ts:592-595: the timer fires first, the subprocess is killed
PythonTimesOut ==
    /\ call.fn = "extractFrameFromYouTube"
    /\ call.pc = "python"
    /\ HelperStep(PythonSettled(call, "timeout"))

\* route.ts:651-665
ThumbnailSettles ==
    /\ call.fn = "extractFrameFromYouTube"
    /\ call.pc = "thumbnail"
    /\ \E outcome \in FetchOutcomes : HelperStep(ThumbnailSettled(call, outcome))

----------------------------------------------------------------------------
(* stitchToTargetDuration and extendVideoWithHold, route.ts:453-573.  A     *)
(* clip is the text of its base64 bytes; the bytes a tool writes are named  *)
(* by the inputs and the command that made them.  `temp` is what the call   *)
(* has created under os.tmpdir() and not removed, `made` counts what it     *)
(* created, `tools` lists the tool runs in order.                           *)

\* what each position of a media helper waits on
MediaAwaits(pc) ==
    CASE pc \in {"mkdtemp", "writeInput", "writeSegment1", "writeSegment2",
                 "writeConcatList", "readOutput", "readFile", "cleanup"} -> "fs"
      [] pc \in {"fetch", "gcloud", "download"} -> pc
      [] pc = "ffmpegPath" -> "ffmpegPath"
      [] pc \in {"pad", "padVideoOnly", "trim", "concatCopy", "concatReencode"} -> "ffmpeg"
      [] OTHER -> "none"

At(c, pc) == [c EXCEPT !.pc = pc, !.awaiting = MediaAwaits(pc)]

\* the try block is left: the finally clause removes the temp directory
\* (route.ts:502-504, 570-572) and the value or the error follows it
Leaves(c, outcome) == At([c EXCEPT !.pending = <<outcome>>], "cleanup")

\* a hold extension that pads whatever the hold
extendVideoWithHold_AlwaysPads(videoBase64, holdSeconds) ==
    [fn |-> "extendVideoWithHold", videoBase64 |-> videoBase64, holdSeconds |-> holdSeconds,
     pc |-> "mkdtemp", awaiting |-> "fs", temp |-> {}, made |-> 0, removal |-> "none", tools |-> <<>>,
     pending |-> <<>>, result |-> <<>>]

\* route.ts:507-521: the clip as it is when the hold is not positive, else the
\* temp directory is asked for
extendVideoWithHold(videoBase64, holdSeconds) ==
    IF holdSeconds <= 0
    THEN [fn |-> "extendVideoWithHold", videoBase64 |-> videoBase64, holdSeconds |-> holdSeconds,
          pc |-> "returned", awaiting |-> "none", temp |-> {}, made |-> 0, removal |-> "none", tools |-> <<>>,
          pending |-> <<>>,
          result |-> <<[mimeType |-> "video/mp4", base64 |-> videoBase64]>>]
    ELSE [fn |-> "extendVideoWithHold", videoBase64 |-> videoBase64, holdSeconds |-> holdSeconds,
          pc |-> "mkdtemp", awaiting |-> "fs", temp |-> {}, made |-> 0, removal |-> "none", tools |-> <<>>,
          pending |-> <<>>, result |-> <<>>]

\* route.ts:453-462
stitchToTargetDuration(firstVideoBase64, secondVideoBase64, keepSeconds) ==
    [fn |-> "stitchToTargetDuration", firstVideoBase64 |-> firstVideoBase64,
     secondVideoBase64 |-> secondVideoBase64, secondKeepSeconds |-> keepSeconds,
     pc |-> "mkdtemp", awaiting |-> "fs", temp |-> {}, made |-> 0, removal |-> "none", tools |-> <<>>,
     pending |-> <<>>, result |-> <<>>]

\* the bytes ffmpeg writes
Padded(c, command) == <<"extended", c.videoBase64, c.holdSeconds, command>>
Stitched(c, command) ==
    <<"stitched", c.firstVideoBase64, c.secondVideoBase64, c.secondKeepSeconds, command>>

Ran(c, outcome) == [c EXCEPT !.tools = Append(@, [step |-> c.pc, outcome |-> outcome])]

\* route.ts:521-569: a step of extendVideoWithHold ended with `outcome`
\* ("ok", "failed", or "timeout" for a tool run)
extendSettled(c, outcome) ==
    CASE c.pc = "mkdtemp" ->
            IF outcome = "ok"
            THEN At([c EXCEPT !.temp = {"veo-extend-"}, !.made = @ + 1], "writeInput")
            ELSE At(c, "threw")
      [] c.pc = "writeInput" ->
            IF outcome = "ok" THEN At(c, "ffmpegPath") ELSE Leaves(c, "error")
      [] c.pc = "ffmpegPath" ->
            IF outcome = "ok" THEN At(c, "pad") ELSE Leaves(c, "error")
      [] c.pc = "pad" ->
            IF outcome = "ok" THEN At(Ran(c, outcome), "readOutput")
            ELSE At(Ran(c, outcome), "padVideoOnly")
      [] c.pc = "padVideoOnly" ->
            IF outcome = "ok" THEN At(Ran(c, outcome), "readOutput")
            ELSE Leaves(Ran(c, outcome), "error")
      [] c.pc = "readOutput" ->
            IF outcome = "ok"
            THEN Leaves([c EXCEPT !.result =
                    <<[mimeType |-> "video/mp4",
                       base64 |-> Padded(c, c.tools[Len(c.tools)].step)]>>], "value")
            ELSE Leaves(c, "error")

\* a stitch that returns the stream-copy output path whether or not it was written
stitchSettled_IgnoresConcatFailure(c, outcome) ==
    CASE c.pc = "mkdtemp" ->
            IF outcome = "ok"
            THEN At([c EXCEPT !.temp = {"veo-stitch-"}, !.made = @ + 1], "writeSegment1")
            ELSE At(c, "threw")
      [] c.pc = "writeSegment1" ->
            IF outcome = "ok" THEN At(c, "writeSegment2") ELSE Leaves(c, "error")
      [] c.pc = "writeSegment2" ->
            IF outcome = "ok" THEN At(c, "ffmpegPath") ELSE Leaves(c, "error")
      [] c.pc = "ffmpegPath" ->
            IF outcome = "ok" THEN At(c, "trim") ELSE Leaves(c, "error")
      [] c.pc = "trim" ->
            IF outcome = "ok" THEN At(Ran(c, outcome), "writeConcatList")
            ELSE Leaves(Ran(c, outcome), "error")
      [] c.pc = "writeConcatList" ->
            IF outcome = "ok" THEN At(c, "concatCopy") ELSE Leaves(c, "error")
      [] c.pc = "concatCopy" -> At(Ran(c, outcome), "readOutput")
      [] c.pc = "concatReencode" ->
            IF outcome = "ok" THEN At(Ran(c, outcome), "readOutput")
            ELSE Leaves(Ran(c, outcome), "error")
      [] c.pc = "readOutput" ->
            IF outcome = "ok"
            THEN Leaves([c EXCEPT !.result =
                    <<[mimeType |-> "video/mp4",
                       base64 |-> Stitched(c, c.tools[Len(c.tools)].step)]>>], "value")
            ELSE Leaves(c, "error")

\* route.ts:462-501: a step of stitchToTargetDuration ended with `outcome`
stitchSettled(c, outcome) ==
    CASE c.pc = "mkdtemp" ->
            IF outcome = "ok"
            THEN At([c EXCEPT !.temp = {"veo-stitch-"}, !.made = @ + 1], "writeSegment1")
            ELSE At(c, "threw")
      [] c.pc = "writeSegment1" ->
            IF outcome = "ok" THEN At(c, "writeSegment2") ELSE Leaves(c, "error")
      [] c.pc = "writeSegment2" ->
            IF outcome = "ok" THEN At(c, "ffmpegPath") ELSE Leaves(c, "error")
      [] c.pc = "ffmpegPath" ->
            IF outcome = "ok" THEN At(c, "trim") ELSE Leaves(c, "error")
      [] c.pc = "trim" ->
            IF outcome = "ok" THEN At(Ran(c, outcome), "writeConcatList")
            ELSE Leaves(Ran(c, outcome), "error")
      [] c.pc = "writeConcatList" ->
            IF outcome = "ok" THEN At(c, "concatCopy") ELSE Leaves(c, "error")
      [] c.pc = "concatCopy" ->
            IF outcome = "ok" THEN At(Ran(c, outcome), "readOutput")
            ELSE At(Ran(c, outcome), "concatReencode")
      [] c.pc = "concatReencode" ->
            IF outcome = "ok" THEN At(Ran(c, outcome), "readOutput")
            ELSE Leaves(Ran(c, outcome), "error")
      [] c.pc = "readOutput" ->
            IF outcome = "ok"
            THEN Leaves([c EXCEPT !.result =
                    <<[mimeType |-> "video/mp4",
                       base64 |-> Stitched(c, c.tools[Len(c.tools)].step)]>>], "value")
            ELSE Leaves(c, "error")

MediaSettled(c, outcome) ==
    IF c.fn = "extendVideoWithHold" THEN extendSettled(c, outcome)
    ELSE stitchSettled(c, outcome)

\* a removal that runs only when the try block returned
Removed_KeepsOnError(c, removed) ==
    [c EXCEPT !.pc = IF c.pending = <<"value">> THEN "returned" ELSE "threw",
              !.awaiting = "none",
              !.removal = IF removed THEN "done" ELSE "failed",
              !.result = IF c.pending = <<"value">> THEN @ ELSE <<>>,
              !.temp = IF removed /\ c.pending = <<"value">> THEN {} ELSE @]

\* route.ts:449, 503, 571: the removal ends, its failure is swallowed
\* (`removal` keeps how it ended), and the value is returned or the error
\* rethrown
Removed(c, removed) ==
    [c EXCEPT !.pc = IF c.pending = <<"value">> THEN "returned" ELSE "threw",
              !.awaiting = "none",
              !.removal = IF removed THEN "done" ELSE "failed",
              !.result = IF c.pending = <<"value">> THEN @ ELSE <<>>,
              !.temp = IF removed THEN {} ELSE @]

IsMedia == call.fn \in {"extendVideoWithHold", "stitchToTargetDuration"}

\* fs.mkdtemp, fs.writeFile or fs.readFile ends
FileOpSettles ==
    /\ IsMedia
    /\ call.awaiting = "fs"
    /\ call.pc # "cleanup"
    /\ \E outcome \in {"ok", "failed"} : HelperStep(MediaSettled(call, outcome))

\* route.ts:324-355: getFfmpegBinaryPath resolves or rejects
FfmpegPathSettles ==
    /\ IsMedia
    /\ call.awaiting = "ffmpegPath"
    /\ \E outcome \in {"ok", "failed"} : HelperStep(MediaSettled(call, outcome))

\* route.ts:309-320: the 'error' or 'close' event of a tool run
ProcessSettles ==
    /\ IsMedia
    /\ call.awaiting = "ffmpeg"
    /\ \E outcome \in {"ok", "failed"} : HelperStep(MediaSettled(call, outcome))

\* route.ts:298-301: the timer of runProcess fires first, the tool is killed
ProcessTimesOut ==
    /\ IsMedia
    /\ call.awaiting = "ffmpeg"
    /\ HelperStep(MediaSettled(call, "timeout"))

\* route.ts:502-504, 570-572 (and 448-450): the finally clause
CleanupSettles ==
    /\ call.fn \in {"extendVideoWithHold", "stitchToTargetDuration", "videoToBase64"}
    /\ call.pc = "cleanup"
    /\ \E removed \in BOOLEAN : HelperStep(Removed(call, removed))

\* a call of extendVideoWithHold in a chain of applications: the clip the
\* chain started from and the holds applied so far, this one included
Applied(c, original, holds) == c @@ [original |-> original, holds |-> holds]

MaxApplications == 3

Clips == {<<"clipA">>, <<"clipB">>}
HoldSeconds == {-1, 0, 2}

\* extendVideoWithHold is called on the clip a call of it returned
ExtendAgain ==
    /\ call.fn = "extendVideoWithHold"
    /\ call.pc = "returned"
    /\ Len(call.holds) < MaxApplications
    /\ \E h \in HoldSeconds :
          HelperStep(Applied(extendVideoWithHold(call.result[1].base64, h),
                             call.original, Append(call.holds, h)))

----------------------------------------------------------------------------
(* videoToBase64, route.ts:382-451.  A video is what the provider returned: *)
(* inline bytes or none, and a URI that is absent, http(s), gs:// or of     *)
(* another scheme.  `tried` lists the sources in the order they were tried, *)
(* each with how it ended.                                                  *)

Video(videoBytes, uri) == [videoBytes |-> videoBytes, uri |-> uri]

Videos == { Video(b, u) : b \in {<<>>, <<"bytes">>}, u \in {"none", "http", "gs", "other"} }

Tried(c, source, outcome) ==
    [c EXCEPT !.tried = Append(@, [source |-> source, outcome |-> outcome])]

\* a resolution in which a non-OK response is final
AfterHttp_StopsAtHttp(c) == At(c, "threw")

\* route.ts:401-438: past the HTTP branch; an http(s) URI is no gs:// URI, so
\* the SDK download is next
AfterHttp(c) == At(c, "download")

\* route.ts:382-438: up to the first await
videoToBase64(video) ==
    LET c == [fn |-> "videoToBase64", video |-> video, pc |-> "entry", awaiting |-> "none",
              tried |-> <<>>, temp |-> {}, made |-> 0, removal |-> "none", pending |-> <<>>, result |-> <<>>]
    IN  IF video.videoBytes # <<>>
        THEN [Tried(c, "inline", "ok") EXCEPT !.pc = "returned", !.result = <<"inline">>]
        ELSE IF video.uri = "http" THEN [c EXCEPT !.pc = "fetch", !.awaiting = "fetch"]
        ELSE IF video.uri = "gs" THEN [c EXCEPT !.pc = "gcloud", !.awaiting = "gcloud"]
        ELSE [c EXCEPT !.pc = "download", !.awaiting = "download"]

\* route.ts:392-401: fetch and response.arrayBuffer() are awaited outside any
\* try: "ok" returns the body, "notOk" falls through, a rejected fetch
\* ("throws") or body read ("bodyFails") rejects videoToBase64
HttpSettled(c, outcome) ==
    LET seen == Tried(c, "http", outcome)
    IN  IF outcome = "ok"
        THEN [seen EXCEPT !.pc = "returned", !.awaiting = "none", !.result = <<"http">>]
        ELSE IF outcome = "notOk" THEN AfterHttp(seen)
        ELSE [seen EXCEPT !.pc = "threw", !.awaiting = "none"]

\* route.ts:403-434: the bucket read; its failure is caught and the SDK download follows
GcloudSettled(c, outcome) ==
    LET seen == Tried(c, "gs", outcome)
    IN  IF outcome = "ok"
        THEN [seen EXCEPT !.pc = "returned", !.awaiting = "none", !.result = <<"gs">>]
        ELSE At(seen, "download")

\* route.ts:436-447: ai.files.download into the temp file; a failed download
\* may have left the file behind ("failedPartial")
DownloadSettled(c, outcome) ==
    LET seen == Tried(c, "sdk", outcome)
        file == {"veo-.mp4"}
    IN  IF outcome = "ok"
        THEN [seen EXCEPT !.pc = "readFile", !.awaiting = "fs", !.temp = file, !.made = @ + 1]
        ELSE IF outcome = "failedPartial"
        THEN [Leaves(seen, "error") EXCEPT !.awaiting = "fs", !.temp = file, !.made = @ + 1]
        ELSE [Leaves(seen, "error") EXCEPT !.awaiting = "fs"]

\* route.ts:442-447
TempFileRead(c, outcome) ==
    IF outcome = "ok"
    THEN [Leaves([c EXCEPT !.result = <<"sdk">>], "value") EXCEPT !.awaiting = "fs"]
    ELSE [Leaves(c, "error") EXCEPT !.awaiting = "fs"]

IsVideoCall == call.fn = "videoToBase64"

\* route.ts:392-401
VideoFetchSettles ==
    /\ IsVideoCall
    /\ call.pc = "fetch"
    /\ \E outcome \in {"ok", "notOk", "throws", "bodyFails"} : HelperStep(HttpSettled(call, outcome))

\* route.ts:405-425
GcloudSettles ==
    /\ IsVideoCall
    /\ call.pc = "gcloud"
    /\ \E outcome \in {"ok", "failed"} : HelperStep(GcloudSettled(call, outcome))

\* route.ts:438-441
DownloadSettles ==
    /\ IsVideoCall
    /\ call.pc = "download"
    /\ \E outcome \in {"ok", "failed", "failedPartial"} : HelperStep(DownloadSettled(call, outcome))

\* route.ts:442
TempFileReadSettles ==
    /\ IsVideoCall
    /\ call.pc = "readFile"
    /\ \E outcome \in {"ok", "failed"} : HelperStep(TempFileRead(call, outcome))

----------------------------------------------------------------------------
(* The helpers, one call at a time *)

HelperTimestamps == {0, 1, 3 * TicksPerSecond}

HelperCalls ==
    { extractFrameFromYouTube(<<"v">>, t) : t \in HelperTimestamps }
    \cup { Applied(extendVideoWithHold(v, h), v, <<h>>) : v \in Clips, h \in HoldSeconds }
    \cup { stitchToTargetDuration(<<"clipA">>, <<"clipB">>, k) : k \in {0, 5} }
    \cup { videoToBase64(v) : v \in Videos }

\* a helper has just been called
InitHelpers ==
    /\ Quiet
    /\ call \in HelperCalls
    /\ env \in {Env(TRUE, MaxCacheItems, "ALLOW_ADULT", TRUE, <<"m1">>, FALSE, TRUE)}
    /\ faults = {}
    /\ pending = <<>>
    /\ deletesLeft = 0
    /\ adClipCache = <<>>
    /\ disk = EmptyStore

NextHelpers ==
    \/ PythonSettles
    \/ PythonTimesOut
    \/ ThumbnailSettles
    \/ FileOpSettles
    \/ FfmpegPathSettles
    \/ ProcessSettles
    \/ ProcessTimesOut
    \/ CleanupSettles
    \/ ExtendAgain
    \/ VideoFetchSettles
    \/ GcloudSettles
    \/ DownloadSettles
    \/ TempFileReadSettles

SpecHelpers == InitHelpers /\ [][NextHelpers]_vars

\* the timers the helpers arm on what they await
TimesOut ==
    \/ PythonTimesOut
    \/ ProcessTimesOut

----------------------------------------------------------------------------
(* C22, as claimed: every external call a helper waits on carries its own   *)
(* timeout: while the helper is suspended on the call, a timer is armed     *)
(* whose firing cancels the call and makes the helper go on or throw, so    *)
(* that a call that never completes does not keep the request waiting.      *)
AwaitsExternalCall ==
    /\ call.fn # "none"
    /\ call.awaiting \notin {"none", "fs"}

C22_AsClaimed_EveryExternalCallHasTimeout ==
    AwaitsExternalCall => ENABLED TimesOut

----------------------------------------------------------------------------
(* C23, as claimed: for every target duration d above the single-call       *)
(* maximum of 8 s that is served by split generation, the clip stitched     *)
(* from the two segments lasts d seconds exactly.                           *)
SplitAssembled ==
    /\ call.fn = "attempt"
    /\ call.split
    /\ call.pc \in {"assemble", "returned"}

----------------------------------------------------------------------------
(* C24: extendVideoWithHold called with holdSeconds <= 0 returns at once    *)
(* the bytes it was given, having run no tool and created no temp           *)
(* directory; and after any number of successive applications whose holds   *)
(* are all zero or negative, the clip returned is the clip the first        *)
(* application was given.                                                   *)
ZeroHoldReturnsInput ==
    (/\ call.fn = "extendVideoWithHold"
     /\ call.holdSeconds <= 0)
    => /\ call.pc = "returned"
       /\ call.result = <<[mimeType |-> "video/mp4", base64 |-> call.videoBase64]>>
       /\ call.tools = <<>>
       /\ call.made = 0
       /\ call.temp = {}

ZeroHoldIdempotent ==
    (/\ call.fn = "extendVideoWithHold"
     /\ \A i \in DOMAIN call.holds : call.holds[i] <= 0)
    => /\ call.pc = "returned"
       /\ call.result[1].base64 = call.original

C24_ZeroHoldReturnsClipUnchanged ==
    /\ ZeroHoldReturnsInput
    /\ ZeroHoldIdempotent

\* three applications with a zero hold
C24_Witness ==
    /\ call.fn = "extendVideoWithHold"
    /\ call.holds = <<0, 0, 0>>
    /\ call.pc = "returned"
    /\ call.result[1].base64 = <<"clipA">>

----------------------------------------------------------------------------
(* C25: extractFrameFromYouTube throws only when the extraction subprocess  *)
(* failed and each of the three thumbnail variants was fetched and failed   *)
(* (response not OK, empty body, or rejected fetch).  Whenever the          *)
(* subprocess fails, for whatever reason, the variants are fetched in their *)
(* fixed order, the first one that arrives OK with a non-empty body is      *)
(* returned, and no variant after it is fetched.                            *)
IsFrameCall == call.fn = "extractFrameFromYouTube"

PrimaryFailed == call.primary \notin {"running", "frame"}

ThrowsOnlyWhenAllFailed ==
    (IsFrameCall /\ call.pc = "threw") =>
        /\ PrimaryFailed
        /\ Len(call.fetched) = Len(ThumbnailCandidates)
        /\ \A i \in DOMAIN call.fetched : call.fetched[i].outcome \in {"notOk", "empty", "throws"}

FallbackInOrder ==
    IsFrameCall =>
        /\ call.pc = "python" <=> call.primary = "running"
        /\ call.fetched # <<>> => PrimaryFailed
        /\ PrimaryFailed => (call.fetched # <<>> \/ call.pc = "thumbnail")
        /\ \A i \in DOMAIN call.fetched :
              /\ call.fetched[i].variant = ThumbnailCandidates[i]
              /\ call.fetched[i].outcome = "image" =>
                    /\ i = Len(call.fetched)
                    /\ call.pc = "returned"
                    /\ call.result = <<ThumbnailCandidates[i]>>
        /\ call.pc = "thumbnail" => Len(call.fetched) < Len(ThumbnailCandidates)

ReturnsPrimaryOrFirstGoodVariant ==
    (IsFrameCall /\ call.pc = "returned") =>
        \/ /\ call.primary = "frame"
           /\ call.result = <<"python">>
           /\ call.fetched = <<>>
        \/ /\ PrimaryFailed
           /\ call.fetched # <<>>
           /\ call.fetched[Len(call.fetched)].outcome = "image"
           /\ call.result = <<call.fetched[Len(call.fetched)].variant>>

C25_FrameFallsBackToFirstGoodThumbnail ==
    /\ ThrowsOnlyWhenAllFailed
    /\ FallbackInOrder
    /\ ReturnsPrimaryOrFirstGoodVariant

\* the subprocess timed out, the first variant came back empty, the second is returned
C25_Witness ==
    /\ IsFrameCall
    /\ call.primary = "timeout"
    /\ call.pc = "returned"
    /\ call.result = <<"sddefault">>
    /\ Len(call.fetched) = 2
    /\ call.fetched[1].outcome = "empty"

----------------------------------------------------------------------------
(* C26 *)

SourceRank(source) ==
    CASE source = "inline" -> 1 [] source = "http" -> 2 [] source = "gs" -> 3 [] source = "sdk" -> 4

LastTried == call.tried[Len(call.tried)]

VideoThrew == IsVideoCall /\ call.pc = "threw"

\* the sources are tried in the order inline, HTTP, bucket, SDK, and every
\* source before the last one tried did not deliver
TriedInOrder ==
    IsVideoCall =>
        \A i, j \in 1..Len(call.tried) :
            i < j => /\ SourceRank(call.tried[i].source) < SourceRank(call.tried[j].source)
                     /\ call.tried[i].outcome # "ok"

\* a source is tried only when every applicable earlier one was absent or failed
LaterOnlyAfterEarlier ==
    IsVideoCall =>
        \A i \in 1..Len(call.tried) :
            LET source == call.tried[i].source
                before == { call.tried[j].source : j \in 1..(i - 1) }
            IN  /\ source # "inline" => call.video.videoBytes = <<>>
                /\ source = "sdk" /\ call.video.uri = "http" => "http" \in before
                /\ source = "sdk" /\ call.video.uri = "gs" => "gs" \in before

\* C26 as claimed: a failure of an earlier source, a failed HTTP download
\* included, never ends the resolution while the SDK download is untried.
C26_AsClaimed_FailureNeverAbortsResolution ==
    VideoThrew => LastTried.source = "sdk"

\* C26, the part the code keeps: the sources are tried in the order inline,
\* HTTP, bucket, SDK, a later one only after every applicable earlier one was
\* absent or failed; a non-OK HTTP response and a failed bucket read are
\* followed by the SDK download, and the only failure that ends the
\* resolution before the SDK download is a rejected HTTP fetch or body read.
C26_SourcesTriedInOrder ==
    /\ TriedInOrder
    /\ LaterOnlyAfterEarlier
    /\ VideoThrew =>
         \/ LastTried.source = "sdk"
         \/ LastTried.source = "http" /\ LastTried.outcome \in {"throws", "bodyFails"}

\* a non-OK HTTP response was followed by the SDK download, which delivered
C26_Witness ==
    /\ IsVideoCall
    /\ call.pc = "returned"
    /\ call.result = <<"sdk">>
    /\ Len(call.tried) = 2
    /\ call.tried[1] = [source |-> "http", outcome |-> "notOk"]

----------------------------------------------------------------------------
(* C27 *)

OwnsTemp == call.fn \in {"videoToBase64", "stitchToTargetDuration", "extendVideoWithHold"}

Exited == OwnsTemp /\ call.pc \in {"returned", "threw"}

\* C27 as claimed: when the creating operation has returned or thrown, its
\* temp file or temp directory is gone, on every exit path.
C27_AsClaimed_NoTempOutlivesItsOperation ==
    Exited => call.temp = {}

\* C27, the part the code keeps: on every exit path after the temp resource
\* was created (a value, a failed file operation, a failed or timed-out tool
\* run) its removal has been run before the operation returns or throws, and
\* the resource is gone unless that removal itself failed.
C27_RemovalRunOnEveryExit ==
    Exited =>
        /\ call.made > 0 => call.removal # "none"
        /\ call.removal = "done" => call.temp = {}
        /\ call.temp # {} => call.removal = "failed"

\* a tool run timed out, the operation threw, and its temp directory is gone
C27_Witness ==
    /\ Exited
    /\ call.fn \in {"stitchToTargetDuration", "extendVideoWithHold"}
    /\ call.pc = "threw"
    /\ call.made > 0
    /\ call.temp = {}
    /\ \E i \in 1..Len(call.tools) : call.tools[i].outcome = "timeout"

----------------------------------------------------------------------------
(* Concurrent requests.  Node runs each handler up to its next await and    *)
(* then lets another one run: every action of POST is one such stretch, so  *)
(* the handlers interleave between actions and never inside one             *)
(* (route.ts:806-822 look-up, 1023-1026 write, both without an await        *)
(* between the Map operations).                                             *)

Handlers == {1, 2}

\* two requests with one cache key (their timestamps fall into the same
\* millisecond, their contexts differ) and one with another key
ConcurrentBodies ==
    { Body(<<"v">>, <<0>>, Product(<<"q">>), "a", FALSE),
      Body(<<"v">>, <<1>>, Product(<<"q">>), "b", FALSE),
      Body(<<"v">>, <<0>>, Product(<<"r">>), "a", FALSE) }

ConcurrentEnvs ==
    { Env(persist, MaxCacheItems, "ALLOW_ADULT", FALSE, <<"m1">>, FALSE, TRUE) : persist \in BOOLEAN }

\* two handlers, a request for each, caches empty or holding the clips of
\* earlier requests for other keys
InitConcurrent ==
    /\ req = [p \in Handlers |-> IdleReq]
    /\ del = [pc |-> "idle", cleared |-> 0]
    /\ nextOp = 1
    /\ log = <<>>
    /\ call = NoCall
    /\ env \in ConcurrentEnvs
    /\ faults = {RawError("plain", 0, "", {})}
    /\ pending \in SeqsOf(ConcurrentBodies, Cardinality(Handlers))
    /\ deletesLeft = 0
    /\ disk = EmptyStore
    /\ adClipCache \in {<<>>, WarmCache}

NextConcurrent ==
    \E p \in Handlers :
        \/ PostCacheHit(p)
        \/ PostCacheMiss(p)
        \/ PostReadDisk(p)
        \/ PostDiskHit(p)
        \/ PostDiskMiss(p)
        \/ PostFramesOk(p)
        \/ PostFramesFail(p)
        \/ PostGenerated(p)
        \/ PostAttemptFail(p)
        \/ PostMkdir(p)
        \/ PostPersist(p)

\* two POST handlers of one process, interleaved at their awaits
SpecConcurrent == InitConcurrent /\ [][NextConcurrent]_vars

----------------------------------------------------------------------------
(* C28 *)

EntriesFor(cache, key) == { i \in DOMAIN cache : cache[i][1] = key }

\* the handler has generated a clip and written it to the cache
Wrote(r) == r.pc \in {"persist", "writeFile", "done"} /\ r.generatedResponse # <<>>

\* handler p writes the cache in this step: the clip it generated
\* (route.ts:1023-1026) or the one it read from the durable store (815-821)
WritesCache(p) ==
    \/ req[p].pc = "attempt" /\ Wrote(req'[p])
    \/ req[p].pc = "diskRead" /\ req[p].diskHit # <<>> /\ req'[p].pc = "done"

Written(p) == IF req[p].pc = "attempt" THEN req'[p].generatedResponse[1] ELSE req[p].diskHit[1]

BothWroteOneKey ==
    /\ \A p \in Handlers : req[p].pc = "done" /\ Wrote(req[p])
    /\ req[1].cacheKey = req[2].cacheKey

\* C28: two POST requests with one cache key that both generate a clip,
\* under every interleaving: the cache changes only in a handler's write, a
\* write leaves exactly one entry for its key, holding the clip just
\* written, within the capacity; so after both have completed the cache
\* holds exactly one entry for the key, a clip one of the two wrote, and at
\* most MAX_CACHE_ENTRIES entries.
C28_ConcurrentWritesLastWriterWins ==
    /\ [](BothWroteOneKey =>
            /\ Cardinality(EntriesFor(adClipCache, req[1].cacheKey)) = 1
            /\ MapGet(adClipCache, req[1].cacheKey) \in { req[p].generatedResponse[1] : p \in Handlers }
            /\ Len(adClipCache) <= env.MAX_CACHE_ENTRIES)
    /\ [][/\ adClipCache' # adClipCache => \E p \in Handlers : WritesCache(p)
          /\ \A p \in Handlers :
                WritesCache(p) =>
                    /\ Cardinality(EntriesFor(adClipCache', req[p].cacheKey)) = 1
                    /\ MapGet(adClipCache', req[p].cacheKey) = Written(p)
                    /\ Len(adClipCache') <= env.MAX_CACHE_ENTRIES]_vars

\* both handlers missed the cache, both generated a clip for one key into a
\* full cache, and both have answered; the entry holds the second clip written
C28_Witness ==
    /\ BothWroteOneKey
    /\ req[1].generatedResponse # req[2].generatedResponse
    /\ Len(adClipCache) = env.MAX_CACHE_ENTRIES
    /\ \E p \in Handlers :
          /\ MapGet(adClipCache, req[1].cacheKey) = req[p].generatedResponse[1]
          /\ \A q \in Handlers : req[q].generatedResponse[1].jobId <= req[p].generatedResponse[1].jobId

----------------------------------------------------------------------------
(* C29 *)

EveryBranchOk(branches) == \A i \in DOMAIN branches : branches[i] = "ok"

\* a parallel branch of the joined step fails in this step
BranchFails ==
    \/ /\ call.fn = "frames" /\ call.pc = "fetching"
       /\ call'.fn = "frames"
       /\ \E i \in DOMAIN call.branches : call.branches[i] = "pending" /\ call'.branches[i] = "failed"
    \/ /\ call.fn = "attempt" /\ call.pc \in {"submit", "poll"}
       /\ call'.fn = "attempt" /\ call'.pc = "threw"
       /\ call'.error # <<>> /\ call'.error[1].at \in {"submit", "poll"}

\* the step after the join: the model loop for the frames, the sample test
\* and the post-processing for a split generation
PastSplitJoin ==
    /\ call.fn = "attempt"
    /\ call.split
    /\ \/ call.pc \in {"resolve", "stitch", "assemble", "returned"}
       \/ call.pc = "threw" /\ call.error[1].at \in {"sample", "resolve", "stitch"}

\* C29: the model loop is entered only in the step in which the last frame
\* fetch of the candidate succeeds, all of them having succeeded; a split
\* generation polls only after both submissions succeeded and passes the
\* polls only after both polls succeeded, so that a clip is assembled and
\* cached only from two submitted and two completed segments; and the step
\* in which a parallel branch fails ends the joined step: the candidate is
\* left (frames) or the attempt has thrown (segments), and nothing is cached.
C29_ParallelStepsJoinedAllOrNothing ==
    /\ [](/\ call.fn = "attempt" /\ call.split /\ call.pc = "poll" =>
               Len(call.submits) = 2 /\ EveryBranchOk(call.submits)
          /\ PastSplitJoin =>
               /\ Len(call.submits) = 2 /\ EveryBranchOk(call.submits)
               /\ Len(call.polls) = 2 /\ EveryBranchOk(call.polls)
          /\ \A p \in Procs :
               req[p].generatedResponse # <<>> /\ call.fn = "attempt" =>
                   EveryBranchOk(call.submits) /\ EveryBranchOk(call.polls))
    /\ [][\A p \in Procs :
            /\ req[p].pc = "frames" /\ req'[p].pc = "attempt" =>
                 /\ call'.fn = "frames"
                 /\ call'.pc = "resolved"
                 /\ Len(call'.branches) = Len(FrameTimes(req[p], env))
                 /\ EveryBranchOk(call'.branches)
            /\ BranchFails =>
                 /\ adClipCache' = adClipCache
                 /\ req'[p].generatedResponse = <<>>
                 /\ call'.fn = "frames" => /\ call'.pc = "rejected"
                                           /\ \/ req'[p].pc = "done"
                                              \/ req'[p].candidateIndex = req[p].candidateIndex + 1]_vars

\* a split generation whose first poll succeeded and whose second failed:
\* the attempt threw with one segment completed
C29_Witness ==
    /\ call.fn = "attempt"
    /\ call.split
    /\ call.pc = "threw"
    /\ call.error[1].at = "poll"
    /\ \E i \in DOMAIN call.polls : call.polls[i] = "ok"
    /\ adClipCache = <<>>

----------------------------------------------------------------------------
(* pollUntilDone, route.ts:357-380.  Times in milliseconds; `now` is what    *)
(* Date.now() returns.  An operation is what the provider last answered:    *)
(* done or not, and an error payload or none.                               *)

POLL_INTERVAL_MS == 4000
MAX_WAIT_MS == 300000

\* what a timer may fire late by, and what a getVideosOperation call may take
TimerLateMs == {0, 1}
PollLatencyMs == {0, 150000}

Operation(done, error) == [done |-> done, error |-> error]

\* the error payloads of an operation: with a message, with an empty one, with none
ErrorPayloads ==
    { [code |-> 8, message |-> <<"quota exceeded">>],
      [code |-> 13, message |-> <<"">>],
      [code |-> 13, message |-> <<>>] }

Operations ==
    { Operation(done, <<>>) : done \in BOOLEAN }
    \cup { Operation(TRUE, <<payload>>) : payload \in ErrorPayloads }

\* a message that never carries what the provider said
toOperationErrorMessage_Generic(operation) == <<"text", "Video operation failed.">>

\* route.ts:357-362: the payload's message when it is a non-empty string,
\* else the payload as JSON
toOperationErrorMessage(operation) ==
    IF operation.error = <<>> THEN <<"text", "Video operation failed.">>
    ELSE LET message == operation.error[1].message
         IN  IF message # <<>> /\ message[1] # "" THEN <<"text", message[1]>>
             ELSE <<"json", operation.error[1]>>

TimedOutMessage == <<"text", "Timed out waiting for Veo generation.">>

\* route.ts:368-379: from the loop test to the next await or to the end
LoopHead(c) ==
    IF ~c.operation.done
    THEN IF c.now - c.startedAt > MAX_WAIT_MS
         THEN [c EXCEPT !.pc = "threw", !.awaiting = "none",
                        !.error = <<[kind |-> "timeout", message |-> TimedOutMessage]>>]
         ELSE [c EXCEPT !.pc = "sleep", !.awaiting = "timer",
                        !.slept = Append(@, POLL_INTERVAL_MS)]
    ELSE IF c.operation.error # <<>>
    THEN [c EXCEPT !.pc = "threw", !.awaiting = "none",
                   !.error = <<[kind |-> "operation",
                                message |-> toOperationErrorMessage(c.operation)]>>]
    ELSE [c EXCEPT !.pc = "returned", !.awaiting = "none", !.result = <<c.operation>>]

\* route.ts:364-370: called at time `now` with the operation the submission returned
pollUntilDone(initialOperation, now) ==
    LoopHead([fn |-> "pollUntilDone", pc |-> "entry", awaiting |-> "none",
              startedAt |-> now, now |-> now, operation |-> initialOperation,
              slept |-> <<>>, polled |-> 0, error |-> <<>>, result |-> <<>>])

IsPollCall == call.fn = "pollUntilDone"

\* route.ts:371, 284-286: the timer fires, on time or late, and
\* getVideosOperation is called
SleepEnds ==
    /\ IsPollCall
    /\ call.pc = "sleep"
    /\ \E late \in TimerLateMs :
          HelperStep([call EXCEPT !.pc = "poll", !.awaiting = "getVideosOperation",
                                  !.now = @ + call.slept[Len(call.slept)] + late])

\* route.ts:372, 368-379: the poll returns an operation and the loop test runs
PollReturns ==
    /\ IsPollCall
    /\ call.pc = "poll"
    /\ \E operation \in Operations, latency \in PollLatencyMs :
          HelperStep(LoopHead([call EXCEPT !.operation = operation,
                                           !.polled = @ + 1,
                                           !.now = @ + latency]))

\* route.ts:372: the poll rejects, and so does pollUntilDone
PollRejects ==
    /\ IsPollCall
    /\ call.pc = "poll"
    /\ HelperStep([call EXCEPT !.pc = "threw", !.awaiting = "none", !.polled = @ + 1,
                               !.error = <<[kind |-> "poll", message |-> <<"text", "request failed">>]>>])

\* pollUntilDone starts on an operation in any state the provider may give it
InitPoll ==
    /\ Quiet
    /\ call \in { pollUntilDone(operation, now) : operation \in Operations, now \in {0, 7} }
    /\ env \in {Env(TRUE, MaxCacheItems, "ALLOW_ADULT", TRUE, <<"m1">>, FALSE, TRUE)}
    /\ faults = {}
    /\ pending = <<>>
    /\ deletesLeft = 0
    /\ adClipCache = <<>>
    /\ disk = EmptyStore

NextPoll ==
    \/ SleepEnds
    \/ PollReturns
    \/ PollRejects

\* every timer fires and every poll call settles
SpecPoll == InitPoll /\ [][NextPoll]_vars /\ WF_vars(SleepEnds) /\ WF_vars(PollReturns \/ PollRejects)

----------------------------------------------------------------------------
(* C30 *)

Elapsed == call.now - call.startedAt

PollEnded == IsPollCall /\ call.pc \in {"returned", "threw"}

PollOutcomes ==
    IsPollCall =>
        /\ call.pc = "returned" =>
              /\ call.operation.done
              /\ call.operation.error = <<>>
              /\ call.result = <<call.operation>>
        /\ call.pc = "threw" /\ call.error[1].kind = "timeout" =>
              /\ ~call.operation.done
              /\ Elapsed > MAX_WAIT_MS
        /\ call.pc = "threw" /\ call.error[1].kind = "operation" =>
              /\ call.operation.done
              /\ call.operation.error # <<>>
              /\ LET payload == call.operation.error[1]
                 IN  call.error[1].message =
                        IF payload.message \in {<<>>, <<"">>} THEN <<"json", payload>>
                        ELSE <<"text", payload.message[1]>>
        /\ call.pc = "sleep" => ~call.operation.done /\ Elapsed <= MAX_WAIT_MS
        /\ PollEnded /\ call.operation.done =>
              call.pc = IF call.operation.error = <<>> THEN "returned" ELSE "threw"

SleepsBetweenPolls ==
    IsPollCall =>
        /\ \A i \in DOMAIN call.slept : call.slept[i] = POLL_INTERVAL_MS
        /\ Len(call.slept) = call.polled + (IF call.pc \in {"sleep", "poll"} THEN 1 ELSE 0)

\* C30: pollUntilDone ends when every timer fires and every poll call
\* settles; it returns the operation only when that is done and carries no
\* error payload; it throws the timeout error only when at a loop test the
\* operation is not done and more than MAX_WAIT_MS have elapsed, and goes on
\* to sleep only when no more have; it throws the payload's message as the
\* provider gave it (the payload as JSON when it has no message) when the
\* operation is done with an error payload; and every poll is preceded by
\* one sleep of POLL_INTERVAL_MS.
C30_PollUntilDoneTerminates ==
    /\ [](PollOutcomes /\ SleepsBetweenPolls)
    /\ <>PollEnded

\* the deadline passed while the operation was not done: the timeout error
\* after the polls, a sleep before each
C30_Witness ==
    /\ IsPollCall
    /\ call.pc = "threw"
    /\ call.error[1].kind = "timeout"
    /\ call.polled > 1
    /\ Len(call.slept) = call.polled

----------------------------------------------------------------------------
(* C31 *)

\* request p makes a generation attempt in this step
Attempts(p) == Steps(p) /\ req'[p].last.kind = "attempt"

SamePair(a, b) == b.kind = "attempt" /\ b.candidate = a.candidate /\ b.model = a.model

\* C31: within one request an attempt with a safety profile after the first
\* comes only directly after the attempt at the same candidate and model
\* with the profile before it, which failed with BlockedInputImage or
\* MissingGeneratedSample; the first attempt of every (candidate, model)
\* uses the first profile, which is the default one; ALLOW_ALL, when it is
\* not the default, is the second profile and so never tried before it.
C31_ProfilesInOrderOnPolicyFailuresOnly ==
    [][\A p \in Procs :
         Attempts(p) =>
            LET a == req'[p].last
                b == req[p].last
                profiles == req'[p].safetyProfiles
            IN  /\ a.profile > 1 =>
                     /\ SamePair(a, b)
                     /\ b.profile = a.profile - 1
                     /\ ~b.ok
                     /\ ErrorClass(b.error[1]) \in PolicyClasses
                /\ ~SamePair(a, b) => a.profile = 1
                /\ profiles[1].personGeneration = env.DEFAULT_PERSON_GENERATION
                /\ \A k \in DOMAIN profiles :
                      k > 1 => /\ profiles[k].personGeneration = "ALLOW_ALL"
                               /\ profiles[1].personGeneration # "ALLOW_ALL"]_vars

\* on the second candidate the permissive profile was attempted, after the
\* default one
C31_Witness ==
    \E p \in Procs :
        /\ req[p].last.kind = "attempt"
        /\ req[p].last.candidate = 2
        /\ req[p].last.profile = 2
        /\ req[p].safetyProfiles[2].personGeneration = "ALLOW_ALL"
        /\ req[p].safetyProfiles[1].personGeneration = "ALLOW_ADULT"

----------------------------------------------------------------------------
(* buildTimestampCandidates on its own, route.ts:54-58 and 99-110: the      *)
(* offsets are whole numbers of seconds, any list of them, the empty one    *)
(* included; the base is the timestamp POST passes, which is not negative.  *)

MaxOffsets == 2

OffsetLists ==
    {DefaultOffsets, TIMESTAMP_FALLBACK_OFFSETS}
    \cup UNION { SeqsOf({-3, 0, 3}, n) : n \in 0 .. MaxOffsets }

BaseTimestamps ==
    {0, 1, TicksPerMs, 3 * TicksPerSecond, 3 * TicksPerSecond + 1, 5 * TicksPerSecond}

InitCandidates ==
    /\ Quiet
    /\ call \in { [fn |-> "buildTimestampCandidates", pc |-> "called",
                   baseTimestamp |-> t, offsets |-> o, result |-> <<>>] :
                  t \in BaseTimestamps, o \in OffsetLists }
    /\ env \in {Env(TRUE, MaxCacheItems, "ALLOW_ADULT", TRUE, <<"m1">>, FALSE, TRUE)}
    /\ faults = {}
    /\ pending = <<>>
    /\ deletesLeft = 0
    /\ adClipCache = <<>>
    /\ disk = EmptyStore

\* route.ts:99-110
BuildCandidates ==
    /\ call.fn = "buildTimestampCandidates"
    /\ call.pc = "called"
    /\ HelperStep([call EXCEPT !.pc = "returned",
                               !.result = buildTimestampCandidatesWith(call.baseTimestamp, call.offsets)])

NextCandidates == BuildCandidates

SpecCandidates == InitCandidates /\ [][NextCandidates]_vars

----------------------------------------------------------------------------
(* C32 *)

CandidatesBuilt == call.fn = "buildTimestampCandidates" /\ call.pc = "returned"

\* what offset i stands for: base + offset, not below 0, cut to a whole millisecond
OffsetValue(i) ==
    LET t == call.baseTimestamp + call.offsets[i] * TicksPerSecond
        clamped == IF t < 0 THEN 0 ELSE t
    IN  clamped - (clamped % TicksPerMs)

FirstOffsetOf(v) ==
    CHOOSE i \in DOMAIN call.offsets :
        OffsetValue(i) = v /\ \A k \in 1 .. (i - 1) : OffsetValue(k) # v

CandidateListWellFormed ==
    LET result == call.result
    IN  /\ Len(result) > 0
        /\ \A j \in DOMAIN result : result[j] >= 0
        /\ \A j, k \in DOMAIN result : j # k => result[j] # result[k]
        /\ call.offsets # <<>> =>
              /\ { result[j] : j \in DOMAIN result } = { OffsetValue(i) : i \in DOMAIN call.offsets }
              /\ \A j, k \in DOMAIN result :
                    j < k => FirstOffsetOf(result[j]) < FirstOffsetOf(result[k])

----------------------------------------------------------------------------
(* C33 *)

IsStitch == call.fn = "stitchToTargetDuration"

ToolRan(step, outcomes) ==
    \E i \in DOMAIN call.tools : call.tools[i].step = step /\ call.tools[i].outcome \in outcomes

\* C33: stitchToTargetDuration runs the trim first, the stream-copy
\* concatenation after a trim that succeeded, and the re-encode
\* concatenation only directly after a stream-copy concatenation that
\* failed or timed out; it returns bytes only when the trim and one of the
\* two concatenations succeeded, and when it has ended otherwise (the trim,
\* both concatenations or the tool-path lookup having failed) it has thrown
\* and returned nothing.
C33_StitchFallsBackToReencode ==
    IsStitch =>
        /\ \A i \in DOMAIN call.tools :
              LET run == call.tools[i]
              IN  /\ i = 1 => run.step = "trim"
                  /\ run.step = "trim" => i = 1
                  /\ run.step = "concatCopy" =>
                        i = 2 /\ call.tools[1] = [step |-> "trim", outcome |-> "ok"]
                  /\ run.step = "concatReencode" =>
                        /\ i = 3
                        /\ call.tools[2].step = "concatCopy"
                        /\ call.tools[2].outcome # "ok"
                  /\ run.step \in {"trim", "concatCopy", "concatReencode"}
        /\ call.pc = "returned" =>
              /\ call.result # <<>>
              /\ ToolRan("trim", {"ok"})
              /\ ToolRan("concatCopy", {"ok"}) \/ ToolRan("concatReencode", {"ok"})
              /\ call.result[1].base64 =
                    Stitched(call, IF ToolRan("concatCopy", {"ok"}) THEN "concatCopy" ELSE "concatReencode")
        /\ call.pc \in {"returned", "threw"} =>
              (~(/\ ToolRan("trim", {"ok"})
                 /\ ToolRan("concatCopy", {"ok"}) \/ ToolRan("concatReencode", {"ok"}))
                  => call.pc = "threw")
        /\ call.pc = "threw" => call.result = <<>>

\* the stream copy failed, the re-encode succeeded, and its output was returned
C33_Witness ==
    /\ IsStitch
    /\ call.pc = "returned"
    /\ Len(call.tools) = 3
    /\ call.tools[2] = [step |-> "concatCopy", outcome |-> "failed"]
    /\ call.tools[3] = [step |-> "concatReencode", outcome |-> "ok"]

----------------------------------------------------------------------------
(* C34 *)

\* an attempt of request p fails in this step
AttemptFails(p) == Steps(p) /\ req'[p].last.kind = "attempt" /\ ~req'[p].last.ok

\* what the handler does about the failure, read off the step
AnswersWith(p, status) == HasResponse(req'[p]) /\ StatusOf(req'[p]) = status

TreatsAsPolicy(p) ==
    \/ /\ req'[p].pc = "attempt"
       /\ req'[p].candidateIndex = req[p].candidateIndex
       /\ req'[p].modelIndex = req[p].modelIndex
       /\ req'[p].profileIndex = req[p].profileIndex + 1
    \/ /\ req[p].profileIndex = Len(req[p].safetyProfiles)
       /\ \/ req'[p].pc = "frames" /\ req'[p].candidateIndex = req[p].candidateIndex + 1
          \/ AnswersWith(p, 500) /\ req'[p].blockedFrameForCandidate

TreatsAsOther(p) ==
    \/ /\ req'[p].pc = "attempt"
       /\ req'[p].candidateIndex = req[p].candidateIndex
       /\ req'[p].modelIndex = req[p].modelIndex + 1
       /\ req'[p].profileIndex = 1
    \/ /\ req[p].modelIndex = Len(req[p].models)
       /\ AnswersWith(p, 500)
       /\ ~req'[p].blockedFrameForCandidate

TreatedAs(p) ==
    { class \in {"PermissionDenied", "QuotaExceeded", "Policy", "Other"} :
        \/ class = "PermissionDenied" /\ AnswersWith(p, 403)
        \/ class = "QuotaExceeded" /\ AnswersWith(p, 429)
        \/ class = "Policy" /\ TreatsAsPolicy(p)
        \/ class = "Other" /\ TreatsAsOther(p) }

Precedence(error) ==
    IF ErrorClass(error) \in PolicyClasses THEN "Policy" ELSE ErrorClass(error)

\* C34: every error of a failed attempt is treated as exactly one class,
\* the one the precedence gives it: PermissionDenied (code 403 or status
\* PERMISSION_DENIED) before QuotaExceeded (code 429 or status
\* RESOURCE_EXHAUSTED) before BlockedInputImage or MissingGeneratedSample
\* (by message) before 'other'; so an error with a structured code of 403
\* or 429 ends the request even when its message matches a blocked-image
\* or missing-sample pattern.
C34_OneClassByPrecedence ==
    [][\A p \in Procs :
         AttemptFails(p) =>
            LET error == req'[p].last.error[1]
            IN  /\ TreatedAs(p) = {Precedence(error)}
                /\ StructuredCode(error) \in {403, 429} => req'[p].pc = "done"]_vars

\* a structured 403 whose message matches the face-generation pattern, with
\* a second profile untried, was answered 403
C34_Witness ==
    \E p \in Procs :
        /\ HasResponse(req[p])
        /\ StatusOf(req[p]) = 403
        /\ req[p].last.kind = "attempt"
        /\ req[p].last.error[1].code = 403
        /\ req[p].last.error[1].msg \cap FacePhrases # {}
        /\ req[p].last.profile < Len(req[p].safetyProfiles)

----------------------------------------------------------------------------
(* The search with every await settling: a step that can be taken is taken. *)

SpecSearchFair == InitSearch /\ [][NextPost]_vars /\ WF_vars(NextPost)

----------------------------------------------------------------------------
(* C35 *)

Triple(event) == <<event.candidate, event.model, event.profile>>

\* nested order: candidates outer, models middle, profiles inner
Before(a, b) ==
    \/ a[1] < b[1]
    \/ a[1] = b[1] /\ a[2] < b[2]
    \/ a[1] = b[1] /\ a[2] = b[2] /\ a[3] < b[3]

Responses == {200, 400, 403, 429, 500}

\* C35: the search of one POST ends when every external call returns.  Each
\* frame extraction is that of the next candidate; the first attempt after
\* it is (candidate, first model, first profile), and every other attempt
\* stands strictly after the attempt before it in the nested order of
\* models and profiles at the same candidate; so no (candidate, model,
\* profile) is attempted twice and the candidate index never decreases; the
\* attempts stay within the lists, so they number at most
\* |candidates| x |models| x |profiles|; and the
\* request ends in one response, a cache hit, a success, 400, 403, 429 or
\* 500, which nothing follows.
C35_SearchTerminatesInNestedOrder ==
    /\ [](\A p \in Procs :
            LET r == req[p]
            IN  /\ r.last.kind = "attempt" =>
                      /\ r.last.candidate \in 1 .. Len(r.timestampCandidates)
                      /\ r.last.model \in 1 .. Len(r.models)
                      /\ r.last.profile \in 1 .. Len(r.safetyProfiles)
                /\ r.step <= Len(r.timestampCandidates)
                               * (1 + Len(r.models) * Len(r.safetyProfiles))
                /\ r.pc = "done" => r.response # <<>> /\ StatusOf(r) \in Responses)
    /\ [][\A p \in Procs :
            /\ Steps(p) /\ req'[p].last.kind = "frames" =>
                  req'[p].last.candidate = req[p].last.candidate + 1
            /\ Steps(p) /\ req'[p].last.kind = "attempt" =>
                  IF req[p].last.kind = "attempt"
                  THEN /\ Before(Triple(req[p].last), Triple(req'[p].last))
                       /\ req'[p].last.candidate = req[p].last.candidate
                  ELSE /\ req[p].last.kind = "frames" /\ req[p].last.ok
                       /\ Triple(req'[p].last) = <<req[p].last.candidate, 1, 1>>
            /\ req[p].pc = "done" => req'[p] = req[p]]_vars
    /\ \A p \in Procs : <>(req[p].pc = "done")

\* every candidate, model and profile was run through: the last attempt
\* was that of the last profile of the last model at the last candidate
C35_Witness ==
    \E p \in Procs :
        /\ HasResponse(req[p])
        /\ req[p].last.kind = "attempt"
        /\ Len(req[p].timestampCandidates) = 3
        /\ Len(req[p].models) = 2
        /\ Len(req[p].safetyProfiles) = 2
        /\ req[p].last.candidate = 3
        /\ req[p].last.model = 2
        /\ req[p].last.profile = 2
        /\ req[p].step >= 9


----------------------------------------------------------------------------
(* C36: DELETE against the requests in flight *)

\* the one DELETE of the run has answered
DeleteCompleted == deletesLeft = 0 /\ del.pc = "idle"

\* a clip of a request served before the run: cached before any DELETE began
CachedBefore(clip) == clip.jobId <= 0

OldInMemory == \E i \in DOMAIN adClipCache : CachedBefore(adClipCache[i][2])
OldOnDisk == \E k \in DOMAIN disk.files : CachedBefore(disk.files[k])

\* C36, as the claim states it, in the case the claim singles out (the
\* durable store was removed, so an old clip can only come from a read made
\* before the removal): once the DELETE has completed, no clip cached before
\* it began is in the in-memory cache.
C36_AsClaimed_NoOldClipAfterDelete ==
    (DeleteCompleted /\ ~OldOnDisk) => ~OldInMemory

\* a request whose durable read answered with a clip and that was in flight
\* while the DELETE ran, at its route.ts:816
HydratesAcrossDelete(p) ==
    /\ req[p].pc = "diskRead"
    /\ req[p].diskHit # <<>>
    /\ req[p].delDuring

\* C36, what the handlers guarantee: the first step of a DELETE leaves the
\* in-memory cache empty, and once the DELETE has completed with the durable
\* store removed, a clip cached before it began enters the in-memory cache
\* only with the answer of a request that was in flight during the DELETE and
\* writes the durable hit it had read (route.ts:814-816).
C36_OldClipReturnsOnlyWithInFlightRead ==
    [][ /\ deletesLeft' < deletesLeft => adClipCache' = <<>>
        /\ (DeleteCompleted' /\ ~OldOnDisk' /\ OldInMemory' /\ ~OldInMemory) =>
              \E p \in Procs :
                 /\ HydratesAcrossDelete(p)
                 /\ HasResponse(req'[p])
                 /\ req'[p].response[1].cacheHit
                 /\ CachedBefore(req'[p].response[1].clip[1]) ]_vars

\* a DELETE completed, the store is gone, and a request answered with the old
\* clip it had read, which is in memory again
C36_Witness ==
    /\ DeleteCompleted
    /\ ~OldOnDisk
    /\ OldInMemory
    /\ \E p \in Procs :
          /\ HasResponse(req[p])
          /\ req[p].delDuring
          /\ req[p].response[1].cacheHit
          /\ CachedBefore(req[p].response[1].clip[1])


----------------------------------------------------------------------------
(* C37: a request that bypasses the cache *)

\* the two requests served earlier, asked again with and without the flag,
\* and a body that is rejected
BypassBodies ==
    {NoBody} \cup
    { [EarlierBodies[i] EXCEPT !.bypassCache = b] : i \in DOMAIN EarlierBodies, b \in BOOLEAN }

BypassEnvs ==
    { Env(persist, MaxCacheItems, "ALLOW_ADULT", FALSE, <<"m1">>, disable, cred) :
        persist \in BOOLEAN, disable \in BOOLEAN, cred \in BOOLEAN }

\* One request whose key is cached: in the durable store alone (written by
\* an earlier process), in both layers, or in neither. A process started with
\* VEO_DISABLE_CACHE=true never wrote its in-memory cache.
InitBypass ==
    /\ Quiet
    /\ call = NoCall
    /\ env \in BypassEnvs
    /\ faults = AllFaults
    /\ pending \in { <<b>> : b \in BypassBodies }
    /\ deletesLeft = 0
    /\ \E warm \in {"cold", "durable", "both"} :
          /\ disk = IF warm = "cold" THEN EmptyStore ELSE WarmStore
          /\ adClipCache = IF warm = "both" /\ ~env.VEO_DISABLE_CACHE THEN WarmCache ELSE <<>>

SpecBypass == InitBypass /\ [][NextPost]_vars

\* the request carries bypassCache=true or runs under VEO_DISABLE_CACHE=true
FlagSet(r) == ValidBody(r.body) /\ (r.body.bypassCache \/ env.VEO_DISABLE_CACHE)

\* C37: a POST with the cache-bypass flag set never reads or writes a cache
\* layer. On arrival it goes to the generation search (or, without
\* credentials, to the 500 of createClient) even when its key is cached; no
\* step of it issues or consumes a durable read or a durable write; every
\* step of it leaves the in-memory cache and the durable store as they were;
\* and its answer never is a cache hit, a 200 carrying the clip just generated.
C37_BypassTouchesNoCache ==
    [][ \A p \in Procs :
          (FlagSet(req'[p]) /\ req'[p] # req[p]) =>
              /\ adClipCache' = adClipCache
              /\ disk' = disk
              /\ req'[p].diskHit = <<>>
              /\ req'[p].pc \in {"frames", "attempt", "done"}
              /\ ~InFlight(req[p]) =>
                    \/ req'[p].pc = "frames"
                    \/ ~env.hasCredentials /\ HasResponse(req'[p]) /\ StatusOf(req'[p]) = 500
              /\ HasResponse(req'[p]) =>
                    /\ ~req'[p].response[1].cacheHit
                    /\ StatusOf(req'[p]) = 200 =>
                          /\ req[p].pc = "attempt"
                          /\ req'[p].response[1].clip = req'[p].generatedResponse
                          /\ req'[p].response[1].clip[1].jobId = nextOp ]_vars

\* a request with the flag set, its key cached in both layers, was answered
\* with a clip it generated, both layers still holding the earlier clips
C37_Witness ==
    \E p \in Procs :
       /\ FlagSet(req[p])
       /\ Generated(req[p])
       /\ MapHas(adClipCache, req[p].cacheKey)
       /\ req[p].cacheKey \in DOMAIN disk.files
       /\ adClipCache = WarmCache
       /\ disk = WarmStore


----------------------------------------------------------------------------
(* C38: a damaged file in the durable store *)

Without(clip, fields) == [f \in DOMAIN clip \ fields |-> clip[f]]

\* what the file of a key may hold instead of a clip: nothing fs.readFile can
\* read, text JSON.parse rejects, an object without one of the fields
\* route.ts:734-738 asks for, an object with none of them
DamagedFiles(clip) ==
    { [raw |-> "unreadable"],
      [raw |-> "not json"],
      Without(clip, {"jobId"}),
      Without(clip, {"videoUrl"}),
      Without(clip, {"mimeType"}),
      Without(clip, {"jobId", "videoUrl", "mimeType"}) }

DamagedBodies ==
    { NoBody,
      EarlierBodies[1],
      [EarlierBodies[1] EXCEPT !.bypassCache = TRUE],
      EarlierBodies[2] }

DamagedEnvs ==
    { Env(TRUE, MaxCacheItems, "ALLOW_ADULT", FALSE, <<"m1">>, FALSE, cred) : cred \in BOOLEAN }

\* Up to MaxPending requests served by a fresh process over a durable store
\* an earlier process left: the file of the first earlier request is intact
\* or damaged, the file of the second is intact.
InitDamaged ==
    /\ Quiet
    /\ call = NoCall
    /\ env \in DamagedEnvs
    /\ faults = {RawError("plain", 0, "", {})}
    /\ pending \in UNION { SeqsOf(DamagedBodies, n) : n \in 1 .. MaxPending }
    /\ deletesLeft = 0
    /\ adClipCache = <<>>
    /\ \E file \in DamagedFiles(EarlierClip(EarlierBodies[1])) \cup {EarlierClip(EarlierBodies[1])} :
          disk = [dir |-> TRUE,
                  files |-> [k \in {CacheKeyOf(EarlierBodies[1]), CacheKeyOf(EarlierBodies[2])} |->
                               IF k = CacheKeyOf(EarlierBodies[1]) THEN file
                               ELSE EarlierClip(EarlierBodies[2])]]

SpecDamaged == InitDamaged /\ [][NextPost]_vars

\* the file cannot be read or parsed, or its object lacks a required field
Damaged(file) ==
    \/ "raw" \in DOMAIN file
    \/ "jobId" \notin DOMAIN file
    \/ "videoUrl" \notin DOMAIN file
    \/ "mimeType" \notin DOMAIN file

\* the request is at its durable read and the file of its key is damaged
MeetsDamaged(r) ==
    /\ r.pc \in {"readDisk", "diskRead"}
    /\ r.cacheKey \in DOMAIN disk.files
    /\ Damaged(disk.files[r.cacheKey])

\* C38: a durable entry that cannot be read, is not valid JSON, or lacks a
\* string jobId, videoUrl or mimeType is a cache miss. Nothing damaged is ever
\* held by the in-memory cache or returned as a cache hit; the steps of a
\* request that meets such an entry leave the in-memory cache as it was and
\* answer nothing from it; and the request goes on to the generation search
\* (without credentials, to the 500 of createClient, as after any miss).
C38_DamagedEntryIsAMiss ==
    /\ [](/\ \A i \in DOMAIN adClipCache : ~Damaged(adClipCache[i][2])
          /\ \A p \in Procs :
                (HasResponse(req[p]) /\ req[p].response[1].cacheHit) =>
                    ~Damaged(req[p].response[1].clip[1]))
    /\ [][ \A p \in Procs :
             MeetsDamaged(req[p]) =>
                 /\ adClipCache' = adClipCache
                 /\ req'[p].diskHit = <<>>
                 /\ ~(HasResponse(req'[p]) /\ req'[p].response[1].cacheHit)
                 /\ req[p].pc = "diskRead" =>
                       \/ req'[p].pc = "frames" /\ req'[p].candidateIndex = 1
                       \/ ~env.hasCredentials /\ HasResponse(req'[p]) /\ StatusOf(req'[p]) = 500 ]_vars

\* a request met a damaged file, generated its clip and was answered 200;
\* the file is still damaged because the durable write failed
C38_Witness ==
    \E p \in Procs :
       /\ Generated(req[p])
       /\ MapHas(adClipCache, req[p].cacheKey)
       /\ req[p].cacheKey \in DOMAIN disk.files
       /\ Damaged(disk.files[req[p].cacheKey])


----------------------------------------------------------------------------
(* C39: the target duration as built *)

\* the process runs the module as written: the target is the constant of
\* route.ts:48, whichever value VEO_FORCE_SINGLE_PASS has
AsBuilt == env.AD_INSERT_DURATION_SECONDS = AD_INSERT_DURATION_SECONDS

====
